---------------------------- MODULE Spec2Model ----------------------------
(***************************************************************************)
(* CurateNSPond: identifier normalisation (resolution.py), the resolution  *)
(* engine IdentifierResolver.resolve (resolution.py), the offline merge    *)
(* merge_jsonl_files (merge.py) and the content hash (storage.py).         *)
(*                                                                         *)
(* A Python str is a sequence of one-character strings, so that strip,     *)
(* upper, lower, startswith, split, isdigit and the code-point order of    *)
(* sorted() are computed and not assumed.  None is <<"None">>, no str.    *)
(***************************************************************************)
EXTENDS Integers, Sequences, FiniteSets, TLC

None == <<"None">>

(***************************************************************************)
(* Characters.                                                             *)
(***************************************************************************)
\* ord(c) of every character the model's strings are made of
Ord ==
    (" " :> 32) @@ ("," :> 44) @@ ("/" :> 47) @@ ("0" :> 48) @@ ("1" :> 49) @@ ("2" :> 50)
    @@ ("3" :> 51) @@ ("4" :> 52) @@ ("9" :> 57) @@ (":" :> 58)
    @@ ("A" :> 65) @@ ("B" :> 66) @@ ("C" :> 67) @@ ("D" :> 68) @@ ("I" :> 73)
    @@ ("M" :> 77) @@ ("O" :> 79) @@ ("P" :> 80) @@ ("X" :> 88)
    @@ ("a" :> 97) @@ ("b" :> 98) @@ ("c" :> 99) @@ ("d" :> 100) @@ ("i" :> 105)
    @@ ("m" :> 109) @@ ("o" :> 111) @@ ("p" :> 112) @@ ("x" :> 120)

IsDigitChar(c) == Ord[c] >= 48 /\ Ord[c] <= 57
IsUpperChar(c) == Ord[c] >= 65 /\ Ord[c] <= 90
IsLowerChar(c) == Ord[c] >= 97 /\ Ord[c] <= 122
CharOfOrd(n) == CHOOSE c \in DOMAIN Ord : Ord[c] = n
UpperChar(c) == IF IsLowerChar(c) THEN CharOfOrd(Ord[c] - 32) ELSE c
LowerChar(c) == IF IsUpperChar(c) THEN CharOfOrd(Ord[c] + 32) ELSE c

(***************************************************************************)
(* str methods.                                                            *)
(***************************************************************************)
StrUpper(s) == [i \in 1..Len(s) |-> UpperChar(s[i])]
StrLower(s) == [i \in 1..Len(s) |-> LowerChar(s[i])]
\* str.isdigit(): non-empty and every character a digit
StrIsDigit(s) == Len(s) > 0 /\ \A i \in 1..Len(s) : IsDigitChar(s[i])
StrStartsWith(s, p) == Len(s) >= Len(p) /\ SubSeq(s, 1, Len(p)) = p
StrContains(s, c) == \E i \in 1..Len(s) : s[i] = c

RECURSIVE StrLStrip(_)
StrLStrip(s) == IF s # <<>> /\ Head(s) = " " THEN StrLStrip(Tail(s)) ELSE s

RECURSIVE StrRStrip(_)
StrRStrip(s) ==
    IF s # <<>> /\ s[Len(s)] = " " THEN StrRStrip(SubSeq(s, 1, Len(s) - 1)) ELSE s

StrStrip(s) == StrRStrip(StrLStrip(s))

\* s.split(":", 1)[1], for an s that holds a colon
SplitAfterColon(s) ==
    LET k == CHOOSE i \in 1..Len(s) : s[i] = ":" /\ \A j \in 1..(i - 1) : s[j] # ":"
    IN  SubSeq(s, k + 1, Len(s))

\* a < b for two str, by code point
RECURSIVE StrLess(_, _)
StrLess(a, b) ==
    IF b = <<>> THEN FALSE
    ELSE IF a = <<>> THEN TRUE
    ELSE IF Ord[Head(a)] # Ord[Head(b)] THEN Ord[Head(a)] < Ord[Head(b)]
    ELSE StrLess(Tail(a), Tail(b))

\* sorted(): stable insertion of x into a list sorted by Less
RECURSIVE InsertSorted(_, _, _)
InsertSorted(Less(_, _), x, s) ==
    IF s = <<>> THEN <<x>>
    ELSE IF Less(x, Head(s)) THEN <<x>> \o s
    ELSE <<Head(s)>> \o InsertSorted(Less, x, Tail(s))

RECURSIVE SortedBy(_, _)
SortedBy(Less(_, _), s) ==
    IF s = <<>> THEN <<>>
    ELSE InsertSorted(Less, s[Len(s)], SortedBy(Less, SubSeq(s, 1, Len(s) - 1)))

RECURSIVE SetToSeq(_)
SetToSeq(S) ==
    IF S = {} THEN <<>>
    ELSE LET x == CHOOSE y \in S : TRUE IN <<x>> \o SetToSeq(S \ {x})

AsSet(seq) == {seq[i] : i \in 1..Len(seq)}

SeqsUpTo(S, n) == UNION {[1..k -> S] : k \in 0..n}

\* sorted(set of str)
SortedStrs(S) == SortedBy(StrLess, SetToSeq(S))

(***************************************************************************)
(* The normalizers.  A call returns Ok(value) or raises ValueError.  A     *)
(* local of the source that is read more than once is the parameter of a   *)
(* helper operator, named after the function and the local.                *)
(***************************************************************************)
Ok(v) == [ok |-> TRUE, value |-> v]
ValueError == [ok |-> FALSE, value |-> <<>>]

_PMC_PREFIX == <<"P", "M", "C">>

normalize_pmid_candidate(candidate) ==
    IF candidate = <<>> THEN ValueError
    ELSE IF ~StrIsDigit(candidate) THEN ValueError
    ELSE Ok(candidate)

normalize_pmid(value) == normalize_pmid_candidate(StrStrip(value))

normalize_pmcid_number_part(number_part) ==
    IF ~StrIsDigit(number_part) THEN ValueError
    ELSE Ok(_PMC_PREFIX \o number_part)

\* line 69
normalize_pmcid_sliced(candidate) ==
    normalize_pmcid_number_part(SubSeq(candidate, Len(_PMC_PREFIX) + 1, Len(candidate)))

\* lines 67-68
normalize_pmcid_prefixed(candidate) ==
    IF ~StrStartsWith(candidate, _PMC_PREFIX)
    THEN normalize_pmcid_sliced(_PMC_PREFIX \o candidate)
    ELSE normalize_pmcid_sliced(candidate)

\* lines 65-66
normalize_pmcid_candidate(candidate) ==
    IF StrStartsWith(candidate, <<"P", "M", "C", "I", "D", ":">>)
    THEN normalize_pmcid_prefixed(SplitAfterColon(candidate))
    ELSE normalize_pmcid_prefixed(candidate)

normalize_pmcid(value) == normalize_pmcid_candidate(StrUpper(StrStrip(value)))

\* lines 79-81
normalize_doi_checked(candidate) ==
    IF ~StrContains(candidate, "/") THEN ValueError
    ELSE Ok(StrLower(candidate))

\* lines 77-78
normalize_doi_candidate(candidate) ==
    IF StrStartsWith(StrLower(candidate), <<"d", "o", "i", ":">>)
    THEN normalize_doi_checked(SplitAfterColon(candidate))
    ELSE normalize_doi_checked(candidate)

normalize_doi(value) == normalize_doi_candidate(StrStrip(value))

\* IdentifierKind, in definition order
IdentifierKind == <<"pmid", "pmcid", "doi">>
Kinds == {"pmid", "pmcid", "doi"}

\* NormalizedIdentifier(kind, value, original); original plays no part in equality
\* of the keys the engines use and is left out
Ident(kind, value) == [kind |-> kind, value |-> value]

\* NormalizedIdentifier(kind, normalize_<kind>(raw), value), or the ValueError of
\* the normalizer
Identified(kind, r) == IF r.ok THEN Ok(Ident(kind, r.value)) ELSE ValueError

\* the rules of lines 89-98 with the '/' rule tried before the 'pmc' rule
normalize_identifier_slash_first(raw, lowered) ==
    IF StrStartsWith(lowered, <<"p", "m", "i", "d", ":">>)
    THEN Identified("pmid", normalize_pmid(SplitAfterColon(raw)))
    ELSE IF StrContains(raw, "/")
    THEN Identified("doi", normalize_doi(raw))
    ELSE IF StrStartsWith(lowered, <<"p", "m", "c", "i", "d", ":">>)
            \/ StrStartsWith(lowered, <<"p", "m", "c">>)
    THEN Identified("pmcid", normalize_pmcid(raw))
    ELSE IF StrIsDigit(raw)
    THEN Identified("pmid", normalize_pmid(raw))
    ELSE ValueError

\* lines 89-98
normalize_identifier_lowered(raw, lowered) ==
    IF StrStartsWith(lowered, <<"p", "m", "i", "d", ":">>)
    THEN Identified("pmid", normalize_pmid(SplitAfterColon(raw)))
    ELSE IF StrStartsWith(lowered, <<"p", "m", "c", "i", "d", ":">>)
            \/ StrStartsWith(lowered, <<"p", "m", "c">>)
    THEN Identified("pmcid", normalize_pmcid(raw))
    ELSE IF StrIsDigit(raw)
    THEN Identified("pmid", normalize_pmid(raw))
    ELSE IF StrContains(raw, "/")
    THEN Identified("doi", normalize_doi(raw))
    ELSE ValueError

\* lines 85-88
normalize_identifier_raw(raw) ==
    IF raw = <<>> THEN ValueError
    ELSE normalize_identifier_lowered(raw, StrLower(raw))

normalize_identifier(value) == normalize_identifier_raw(StrStrip(value))

_normalize_value(kind, value) ==
    IF kind = "pmid" THEN normalize_pmid(value)
    ELSE IF kind = "pmcid" THEN normalize_pmcid(value)
    ELSE normalize_doi(value)

\* the str value of an IdentifierKind member, as characters
KindChars(kind) ==
    IF kind = "pmid" THEN <<"p", "m", "i", "d">>
    ELSE IF kind = "pmcid" THEN <<"p", "m", "c", "i", "d">>
    ELSE <<"d", "o", "i">>

\* NormalizedIdentifier.hash_component
hash_component(ident) == KindChars(ident.kind) \o <<":">> \o ident.value

(***************************************************************************)
(* storage.py: the content hash.  SHA-256 is collision-free here: a digest *)
(* is its input under a tag, so two digests are equal exactly when the     *)
(* hashed bytes are.                                                       *)
(***************************************************************************)
Sha256Hex16(bytes) == <<"sha256", bytes>>

\* the paths are read in argument order
SortedPaths_as_given(paths) == paths

\* sorted(paths, key=lambda item: item.as_posix())
SortedPaths(paths) == SortedBy(StrLess, paths)

RECURSIVE ConcatFiles(_, _)
ConcatFiles(ordered, fs) ==
    IF ordered = <<>> THEN <<>>
    ELSE (IF Head(ordered) \in DOMAIN fs THEN fs[Head(ordered)] ELSE <<>>)
         \o ConcatFiles(Tail(ordered), fs)

\* hash_file_contents(paths): the files' bytes, fed in sorted path order; a file is
\* its lines, each line the bytes of one row
hash_file_contents(paths, fs) == Sha256Hex16(ConcatFiles(SortedPaths(paths), fs))

(***************************************************************************)
(* merge.py.  A line of a JSONL file is [json, pmid, pmcid, doi]: json is  *)
(* "blank" (an empty line), "invalid" (not JSON), "array" (JSON, no        *)
(* object) or "object", whose payload.get(key) are the three fields.       *)
(* An error string is a record of what the f-string is built from.         *)
(***************************************************************************)
ReadError(tag, path, idx) ==
    [tag |-> tag, path |-> path, idx |-> idx, kind |-> "", values |-> <<>>]
PathError(tag, path) ==
    [tag |-> tag, path |-> path, idx |-> 0, kind |-> "", values |-> <<>>]
ConflictError(kind, entries) ==
    [tag |-> "Conflicting", path |-> <<>>, idx |-> 0, kind |-> kind, values |-> entries]

\* truthiness of payload.get(key): None and "" are false
Truthy(v) == v # None /\ v # <<>>

\* _read_jsonl, lines 41-49: the row of one JSON object
_read_jsonl_record(record, acc, path, idx) ==
    IF ~(Truthy(record.pmid) \/ Truthy(record.pmcid) \/ Truthy(record.doi))
    THEN [acc EXCEPT !.errors =
            Append(@, ReadError("row has no recognizable identifiers", path, idx))]
    ELSE [acc EXCEPT !.records = Append(@, record)]

\* _read_jsonl, lines 30-49: one line of the file
_read_jsonl_line(line, acc, path, idx) ==
    IF line.json = "blank" THEN acc
    ELSE IF line.json = "invalid"
    THEN [acc EXCEPT !.errors = Append(@, ReadError("invalid JSON", path, idx))]
    ELSE IF line.json # "object"
    THEN [acc EXCEPT !.errors =
            Append(@, ReadError("expected JSON object per line", path, idx))]
    ELSE _read_jsonl_record([pmid |-> line.pmid, pmcid |-> line.pmcid, doi |-> line.doi],
                            acc, path, idx)

\* _read_jsonl, line 29: the loop over the lines; acc is [records, errors]
RECURSIVE _read_jsonl_from(_, _, _, _)
_read_jsonl_from(path, lines, idx, acc) ==
    IF idx > Len(lines) THEN acc
    ELSE _read_jsonl_from(path, lines, idx + 1, _read_jsonl_line(lines[idx], acc, path, idx))

\* _read_jsonl(path, errors): [records, errors]
_read_jsonl(path, fs, errors) ==
    _read_jsonl_from(path, fs[path], 1, [records |-> <<>>, errors |-> errors])

\* merge_jsonl_files, lines 105-108: acc is [identifiers, errors]
NormalizedKey(path, r, acc) ==
    IF r.ok THEN [acc EXCEPT !.identifiers = Append(@, r.value)]
    ELSE [acc EXCEPT !.errors = Append(@, PathError("ValueError", path))]

\* merge_jsonl_files, lines 102-108
NormalizeKey(path, value, acc) ==
    IF value = None \/ StrStrip(value) = <<>> THEN acc
    ELSE NormalizedKey(path, normalize_identifier(value), acc)

\* merge_jsonl_files, line 101: for key in ("pmid", "pmcid", "doi")
RECURSIVE NormalizeRecordKeys(_, _, _, _)
NormalizeRecordKeys(path, record, keys, acc) ==
    IF keys = <<>> THEN acc
    ELSE NormalizeRecordKeys(path, record, Tail(keys),
                             NormalizeKey(path, record[Head(keys)], acc))

\* merge_jsonl_files, lines 109-114: acc is [normalized_records, errors], r the
\* identifiers of one record and the errors so far
KeepOrDiscard(path, r, acc) ==
    IF r.identifiers # <<>>
    THEN [normalized_records |-> Append(acc.normalized_records, r.identifiers),
          errors |-> r.errors]
    ELSE [normalized_records |-> acc.normalized_records,
          errors |-> Append(r.errors, PathError("record discarded", path))]

\* merge_jsonl_files, line 99: for record in extracted
RECURSIVE NormalizeExtracted(_, _, _)
NormalizeExtracted(path, extracted, acc) ==
    IF extracted = <<>> THEN acc
    ELSE NormalizeExtracted(path, Tail(extracted),
            KeepOrDiscard(path,
                NormalizeRecordKeys(path, Head(extracted), IdentifierKind,
                                    [identifiers |-> <<>>, errors |-> acc.errors]),
                acc))

\* merge_jsonl_files, lines 98-99: rd is what _read_jsonl returned
NormalizeFile(path, rd, acc) ==
    NormalizeExtracted(path, rd.records,
                       [normalized_records |-> acc.normalized_records, errors |-> rd.errors])

\* merge_jsonl_files, lines 97-114: the loop over ordered_paths
RECURSIVE ReadAll(_, _, _)
ReadAll(ordered, fs, acc) ==
    IF ordered = <<>> THEN acc
    ELSE ReadAll(Tail(ordered), fs,
                 NormalizeFile(Head(ordered), _read_jsonl(Head(ordered), fs, acc.errors), acc))

(***************************************************************************)
(* _group_identifiers: the union-find over hash_component keys.  A dict is *)
(* a function (parent) or, where its iteration order is used, the list of  *)
(* its items in insertion order (key_to_identifier, components).           *)
(***************************************************************************)
EmptyDict == [k \in {} |-> k]

\* find, lines 59-61: r is what the inner find returned
find_compress(key, r) == [parent |-> [r.parent EXCEPT ![key] = r.root], root |-> r.root]

\* find(key), with its path compression: [parent, root]
RECURSIVE find(_, _)
RECURSIVE find_set(_, _)
find_set(parent, key) ==
    IF parent[key] # key THEN find_compress(key, find(parent, parent[key]))
    ELSE [parent |-> parent, root |-> key]

find(parent, key) ==
    IF key \in DOMAIN parent THEN find_set(parent, key)
    ELSE find_set(parent @@ (key :> key), key)

\* union, lines 66-67
union_roots(fa, fb) ==
    IF fa.root # fb.root THEN [fb.parent EXCEPT ![fb.root] = fa.root]
    ELSE fb.parent

\* union with "parent[b] = root_a": b is re-parented, not its root
union_second_unrooted(fa, b) == [find(fa.parent, b).parent EXCEPT ![b] = fa.root]

\* union, line 65
union_second(fa, b) == union_roots(fa, find(fa.parent, b))

\* union(a, b): the parent dict afterwards
union(parent, a, b) == union_second(find(parent, a), b)

HasKey(items, key) == \E i \in 1..Len(items) : items[i].key = key

\* line 74: key_to_identifier.setdefault(key, identifier)
SetDefaultIdentifier(key_to_identifier, key, identifier) ==
    IF HasKey(key_to_identifier, key) THEN key_to_identifier
    ELSE Append(key_to_identifier, [key |-> key, identifier |-> identifier])

\* lines 74-75, for one identifier and its key
RegisterKey(st, key, identifier) ==
    [parent |-> find(st.parent, key).parent,
     key_to_identifier |-> SetDefaultIdentifier(st.key_to_identifier, key, identifier)]

\* lines 73-75: the loop over zip(keys, identifiers)
RECURSIVE RegisterKeys(_, _)
RegisterKeys(st, identifiers) ==
    IF identifiers = <<>> THEN st
    ELSE RegisterKeys(RegisterKey(st, hash_component(Head(identifiers)), Head(identifiers)),
                      Tail(identifiers))

\* lines 76-78: union(first_key, key) for key in keys[1:]
RECURSIVE UnionAll(_, _, _)
UnionAll(parent, first_key, rest) ==
    IF rest = <<>> THEN parent
    ELSE UnionAll(union(parent, first_key, hash_component(Head(rest))), first_key, Tail(rest))

\* the record is joined to the first key of the whole input, not to its own
UnionRecord_first_of_all(reg, identifiers) ==
    [parent |-> UnionAll(reg.parent, reg.key_to_identifier[1].key, identifiers),
     key_to_identifier |-> reg.key_to_identifier]

\* lines 76-78, after the keys of the record are registered
UnionRecord(reg, identifiers) ==
    [parent |-> UnionAll(reg.parent, hash_component(Head(identifiers)), Tail(identifiers)),
     key_to_identifier |-> reg.key_to_identifier]

\* lines 70-78: one record
GroupRecord(st, identifiers) ==
    IF identifiers = <<>> THEN st
    ELSE UnionRecord(RegisterKeys(st, identifiers), identifiers)

\* line 69: the loop over the records
RECURSIVE GroupRecords(_, _)
GroupRecords(st, records) ==
    IF records = <<>> THEN st
    ELSE GroupRecords(GroupRecord(st, Head(records)), Tail(records))

EmptyBucket == [kind \in Kinds |-> {}]

ComponentAt(components, root) == CHOOSE i \in 1..Len(components) : components[i].root = root

\* line 84: bucket[identifier.kind].add(identifier.value)
AddToBucket(components, root, identifier) ==
    [components EXCEPT ![ComponentAt(components, root)].values[identifier.kind] =
        @ \cup {identifier.value}]

\* line 83: components.setdefault(root, {kind: set() for kind in IdentifierKind})
SetDefaultComponent(components, root) ==
    IF \E i \in 1..Len(components) : components[i].root = root THEN components
    ELSE Append(components, [root |-> root, values |-> EmptyBucket])

\* lines 82-84: f is what find(key) returned; acc is [parent, components]
AddToComponents(f, identifier, acc) ==
    [parent |-> f.parent,
     components |-> AddToBucket(SetDefaultComponent(acc.components, f.root), f.root, identifier)]

\* line 81: the loop over key_to_identifier.items()
RECURSIVE BuildComponents(_, _)
BuildComponents(items, acc) ==
    IF items = <<>> THEN acc
    ELSE BuildComponents(Tail(items),
            AddToComponents(find(acc.parent, Head(items).key), Head(items).identifier, acc))

\* lines 80-86, after the loop over the records
ComponentsOf(st) ==
    BuildComponents(st.key_to_identifier, [parent |-> st.parent, components |-> <<>>]).components

\* _group_identifiers(records): the components dict, as its items in insertion order
_group_identifiers(records) ==
    ComponentsOf(GroupRecords([parent |-> EmptyDict, key_to_identifier |-> <<>>], records))

\* the last of the sorted values wins, not the first
ChooseEntry_last(kind, entries, acc) ==
    IF entries = <<>> THEN acc
    ELSE [record |-> [acc.record EXCEPT ![kind] = entries[Len(entries)]],
          sort_tokens |-> Append(acc.sort_tokens,
                                 KindChars(kind) \o <<":">> \o entries[Len(entries)]),
          errors |-> IF Len(entries) > 1
                     THEN Append(acc.errors, ConflictError(kind, entries))
                     ELSE acc.errors]

\* lines 125-133: entries is sorted(values[kind]); acc is [record, sort_tokens, errors]
ChooseEntry(kind, entries, acc) ==
    IF entries = <<>> THEN acc
    ELSE [record |-> [acc.record EXCEPT ![kind] = entries[1]],
          sort_tokens |-> Append(acc.sort_tokens, KindChars(kind) \o <<":">> \o entries[1]),
          errors |-> IF Len(entries) > 1
                     THEN Append(acc.errors, ConflictError(kind, entries))
                     ELSE acc.errors]

\* line 124: sorted(values[kind])
SortedEntries(values) == SortedStrs(values)

\* line 123: for kind in IdentifierKind
RECURSIVE ChooseKinds(_, _, _)
ChooseKinds(values, kinds, acc) ==
    IF kinds = <<>> THEN acc
    ELSE ChooseKinds(values, Tail(kinds),
                     ChooseEntry(Head(kinds), SortedEntries(values[Head(kinds)]), acc))

NullRecord == [pmid |-> None, pmcid |-> None, doi |-> None]

\* the sort key taken from the last sort token of the record, not the first
SortableOf_last_token(root, r, acc) ==
    [sortable_records |->
        Append(acc.sortable_records,
               [key |-> IF r.sort_tokens # <<>> THEN r.sort_tokens[Len(r.sort_tokens)] ELSE root,
                record |-> r.record]),
     errors |-> r.errors]

\* lines 134-135: r is [record, sort_tokens, errors] of the component of this root
SortableOf(root, r, acc) ==
    [sortable_records |->
        Append(acc.sortable_records,
               [key |-> IF r.sort_tokens # <<>> THEN r.sort_tokens[1] ELSE root,
                record |-> r.record]),
     errors |-> r.errors]

\* lines 120-135: the loop over components.items(); acc is [sortable_records, errors]
RECURSIVE BuildSortable(_, _)
BuildSortable(components, acc) ==
    IF components = <<>> THEN acc
    ELSE BuildSortable(Tail(components),
            SortableOf(Head(components).root,
                       ChooseKinds(Head(components).values, IdentifierKind,
                                   [record |-> NullRecord, sort_tokens |-> <<>>,
                                    errors |-> acc.errors]),
                       acc))

SortKeyLess(a, b) == StrLess(a.key, b.key)

\* line 138
RecordsOf(sorted_records) == [i \in 1..Len(sorted_records) |-> sorted_records[i].record]

\* MergeOutcome; raised is TRUE when the call raised instead of returning
MergeOutcome(records, input_hash, source_files, errors) ==
    [raised |-> FALSE, records |-> records, input_hash |-> input_hash,
     source_files |-> source_files, errors |-> errors]
MergeRaised ==
    [raised |-> TRUE, records |-> <<>>, input_hash |-> <<>>,
     source_files |-> <<>>, errors |-> <<>>]

\* the records are returned in the order the components were built, unsorted
merge_outcome_of_unsorted(paths, fs, ordered_paths, built) ==
    MergeOutcome(RecordsOf(built.sortable_records),
                 hash_file_contents(paths, fs), ordered_paths, built.errors)

\* lines 137-146: built is [sortable_records, errors]
merge_outcome_of(paths, fs, ordered_paths, built) ==
    MergeOutcome(RecordsOf(SortedBy(SortKeyLess, built.sortable_records)),
                 hash_file_contents(paths, fs), ordered_paths, built.errors)

\* lines 116-135: rd is [normalized_records, errors]
merge_grouped(paths, fs, ordered_paths, rd) ==
    merge_outcome_of(paths, fs, ordered_paths,
        BuildSortable(_group_identifiers(rd.normalized_records),
                      [sortable_records |-> <<>>, errors |-> rd.errors]))

\* lines 97-114
merge_read(paths, fs, ordered_paths) ==
    merge_grouped(paths, fs, ordered_paths,
        ReadAll(ordered_paths, fs, [normalized_records |-> <<>>, errors |-> <<>>]))

\* merge_jsonl_files(paths), reading the files of the file system fs
merge_jsonl_files(paths, fs) ==
    IF paths = <<>> THEN MergeRaised
    ELSE merge_read(paths, fs, SortedPaths(paths))

(***************************************************************************)
(* resolution.py: _ResolutionState.  A ResolvedRecord is an object: heap   *)
(* holds every record ever created, at the position that is its identity   *)
(* (creation order), records is self.records as a list of identities and   *)
(* index is self.index.  An operation takes the state st and returns it    *)
(* changed; cur is the record the call returned, raised is TRUE once a     *)
(* ValueError left the normalizer, and every later operation of the call   *)
(* is then skipped.  No record (None) is the identity 0.                   *)
(***************************************************************************)
NewResolutionState ==
    [heap |-> <<>>, records |-> <<>>, index |-> EmptyDict, raised |-> FALSE, cur |-> 0]

Raise(st) == [st EXCEPT !.raised = TRUE]

DictPut(d, k, v) == [x \in DOMAIN d \cup {k} |-> IF x = k THEN v ELSE d[x]]
\* dict.get(k): 0 when the key is absent
DictGet(d, k) == IF k \in DOMAIN d THEN d[k] ELSE 0

\* _attach(record, kind, value)
_attach(st, record, kind, value) ==
    [st EXCEPT !.heap[record][kind] = value,
               !.index = DictPut(@, Ident(kind, value), record)]

\* list.remove(other): the first element equal to other by dataclass __eq__, which
\* compares the three fields
RECURSIVE RemoveFirstEqual(_, _, _)
RemoveFirstEqual(records, heap, other) ==
    IF records = <<>> THEN <<>>
    ELSE IF heap[Head(records)] = heap[other] THEN Tail(records)
    ELSE <<Head(records)>> \o RemoveFirstEqual(Tail(records), heap, other)

\* _merge, lines 152-153: the if is the no-op of removing nothing
_merge_remove(st, other) ==
    [st EXCEPT !.records = RemoveFirstEqual(@, st.heap, other)]

\* _merge, lines 154-157
_merge_fields(target_record, other_record) ==
    [attr \in Kinds |->
        IF Truthy(other_record[attr]) /\ ~Truthy(target_record[attr])
        THEN other_record[attr] ELSE target_record[attr]]

_merge_copy(st, target, other) ==
    [st EXCEPT !.heap[target] = _merge_fields(@, st.heap[other])]

\* _merge, line 161, r the normalized value of the field
_merge_index(st, target, kind, r) ==
    IF ~r.ok THEN Raise(st)
    ELSE [st EXCEPT !.index = DictPut(@, Ident(kind, r.value), target)]

\* _merge, lines 158-161: for attr, kind in _ATTR_KIND.items()
RECURSIVE _merge_reindex(_, _, _)
_merge_reindex(st, target, kinds) ==
    IF kinds = <<>> \/ st.raised THEN st
    ELSE IF ~Truthy(st.heap[target][Head(kinds)]) THEN _merge_reindex(st, target, Tail(kinds))
    ELSE _merge_reindex(
            _merge_index(st, target, Head(kinds),
                         _normalize_value(Head(kinds), st.heap[target][Head(kinds)])),
            target, Tail(kinds))

\* _merge(target, other); returns target
_merge(st, target, other) ==
    IF target = other THEN st
    ELSE _merge_reindex(_merge_copy(_merge_remove(st, other), target, other),
                        target, IdentifierKind)

\* ensure_record with the new record put at the head of the list
ensure_record_create_prepending(st, record, kind, normalized) ==
    [_attach([st EXCEPT !.heap = Append(@, NullRecord), !.records = <<record>> \o @],
             record, kind, normalized)
        EXCEPT !.cur = record]

\* ensure_record, lines 129-132: record is the identity of the new ResolvedRecord
ensure_record_create(st, record, kind, normalized) ==
    [_attach([st EXCEPT !.heap = Append(@, NullRecord), !.records = Append(@, record)],
             record, kind, normalized)
        EXCEPT !.cur = record]

\* ensure_record, lines 126-132
ensure_record_existing(st, existing, kind, normalized) ==
    IF existing # 0 THEN [st EXCEPT !.cur = existing]
    ELSE ensure_record_create(st, Len(st.heap) + 1, kind, normalized)

\* ensure_record, lines 124-126
ensure_record_normalized(st, kind, r) ==
    IF ~r.ok THEN Raise(st)
    ELSE ensure_record_existing(st, DictGet(st.index, Ident(kind, r.value)), kind, r.value)

\* ensure_record(kind, value)
ensure_record(st, kind, value) ==
    IF st.raised THEN st
    ELSE ensure_record_normalized(st, kind, _normalize_value(kind, value))

\* link, lines 145-147: st is the state after _merge, which returned merged
link_merged(st, merged, kind, normalized) ==
    IF st.raised THEN st
    ELSE [_attach(st, merged, kind, normalized) EXCEPT !.cur = merged]

\* link that hands back the record the index knows, without merging the two
link_existing_unmerged(st, record, existing, kind, normalized) ==
    IF existing = 0 THEN [_attach(st, record, kind, normalized) EXCEPT !.cur = record]
    ELSE [st EXCEPT !.cur = existing]

\* link, lines 138-147
link_existing(st, record, existing, kind, normalized) ==
    IF existing = 0 THEN [_attach(st, record, kind, normalized) EXCEPT !.cur = record]
    ELSE IF existing = record THEN [st EXCEPT !.cur = record]
    ELSE link_merged(_merge(st, existing, record), existing, kind, normalized)

\* link, lines 135-137
link_normalized(st, record, kind, r) ==
    IF ~r.ok THEN Raise(st)
    ELSE link_existing(st, record, DictGet(st.index, Ident(kind, r.value)), kind, r.value)

\* link(record, kind, value)
link(st, record, kind, value) ==
    IF st.raised THEN st
    ELSE link_normalized(st, record, kind, _normalize_value(kind, value))

(***************************************************************************)
(* IdentifierResolver.resolve: what it does with one item of a gateway's   *)
(* answer.  A payload is [pmid, pmcid, doi], a key the gateway left out    *)
(* being None.                                                             *)
(***************************************************************************)
\* record = state.link(record, kind, value) under "if value:"
LinkIfGiven(st, kind, value) ==
    IF st.raised \/ ~Truthy(value) THEN st
    ELSE link(st, st.cur, kind, value)

\* lines 227-233: one item of conversions.items()
PmcItem(st, pmcid, payload) ==
    LinkIfGiven(LinkIfGiven(ensure_record(st, "pmcid", pmcid), "pmid", payload.pmid),
                "doi", payload.doi)

\* lines 248-254: one item of summaries.items()
EntrezItem(st, pmid, payload) ==
    LinkIfGiven(LinkIfGiven(ensure_record(st, "pmid", pmid), "pmcid", payload.pmcid),
                "doi", payload.doi)

\* lines 280-289: the data of one external-ID call
SemanticData(st, kind, value, data) ==
    LinkIfGiven(
        LinkIfGiven(LinkIfGiven(ensure_record(st, kind, value), "pmid", data.pmid),
                    "pmcid", data.pmcid),
        "doi", data.doi)

\* lines 217-218: the seeding loop
RECURSIVE SeedRecords(_, _)
SeedRecords(st, identifiers) ==
    IF identifiers = <<>> THEN st
    ELSE SeedRecords(ensure_record(st, Head(identifiers).kind, Head(identifiers).value),
                     Tail(identifiers))

\* line 220: sorted({ident.value for ident in identifiers if ident.kind is PMCID})
PmcidsOf(identifiers) ==
    SortedStrs({identifiers[i].value :
                  i \in {j \in 1..Len(identifiers) : identifiers[j].kind = "pmcid"}})

LiveValues(st, kind) ==
    {st.heap[st.records[i]][kind] :
        i \in {j \in 1..Len(st.records) : Truthy(st.heap[st.records[j]][kind])}}

\* lines 237-241: sorted({record.pmid for record in state.records if record.pmid})
PmidsOf(st) == SortedStrs(LiveValues(st, "pmid"))

\* (kind, value) < (kind, value) as Python orders the tuples: IdentifierKind is a
\* str, so kinds compare as "doi" < "pmcid" < "pmid", then the values
TargetLess(a, b) ==
    IF a.kind # b.kind THEN StrLess(KindChars(a.kind), KindChars(b.kind))
    ELSE StrLess(a.value, b.value)

\* semantic_targets built from the pmcid fields as well
SemanticTargets_with_pmcids(st) ==
    SortedBy(TargetLess,
             SetToSeq({Ident("pmid", v) : v \in LiveValues(st, "pmid")}
                      \cup {Ident("pmcid", v) : v \in LiveValues(st, "pmcid")}
                      \cup {Ident("doi", v) : v \in LiveValues(st, "doi")}))

\* lines 258-268: semantic_targets
SemanticTargets(st) ==
    SortedBy(TargetLess,
             SetToSeq({Ident("pmid", v) : v \in LiveValues(st, "pmid")}
                      \cup {Ident("doi", v) : v \in LiveValues(st, "doi")}))

\* a string that does not normalize is skipped
NormalizedItem_skipping(r, acc) ==
    IF r.ok THEN Ok(Append(acc.value, r.value)) ELSE acc

\* one element of the comprehension: r is what normalize_identifier returned
NormalizedItem(r, acc) ==
    IF r.ok THEN Ok(Append(acc.value, r.value)) ELSE ValueError

\* resolve_from_strings, line 208: the list comprehension, which raises at the
\* first string that does not normalize
RECURSIVE NormalizeAll(_, _)
NormalizeAll(strings, acc) ==
    IF strings = <<>> \/ ~acc.ok THEN acc
    ELSE NormalizeAll(Tail(strings), NormalizedItem(normalize_identifier(Head(strings)), acc))

(***************************************************************************)
(* The resolve runs.  One run is one call of resolve_from_strings or of    *)
(* the resolve CLI command on a batch of strings.  The gateways are the    *)
(* environment: "honest" gateways never fail and answer every request from *)
(* the table Publications, "failing" gateways answer a call in that way or *)
(* raise their source error, "arbitrary" gateways raise or answer anything *)
(* of their return type.  The items of a dict a gateway returned are drawn *)
(* one at a time, in the order the loop of resolve meets them.  r_calls is *)
(* the list of the gateway calls made so far.                              *)
(***************************************************************************)
VARIABLES m_pc, m_paths, m_files, m_outcome

mergeVars == <<m_pc, m_paths, m_files, m_outcome>>

VARIABLES r_pc, r_entry, r_gateways, r_strings, r_identifiers, r_state,
          r_sources, r_errors, r_calls, r_request, r_items, r_targets

resolveVars == <<r_pc, r_entry, r_gateways, r_strings, r_identifiers, r_state,
                 r_sources, r_errors, r_calls, r_request, r_items, r_targets>>

\* one call of normalize_identifier on n_raw, then one on the value it returned
VARIABLES n_pc, n_raw, n_result, n_again

normalizeVars == <<n_pc, n_raw, n_result, n_again>>

NormalizeIdle == n_pc = "idle" /\ n_raw = <<>> /\ n_result = ValueError /\ n_again = ValueError

\* one IdentifierResolver: the clients the caller passes, the clients it holds,
\* its _owns_* flags, and the close() calls made on each client so far
VARIABLES c_pc, c_args, c_held, c_owns, c_closes, c_close_calls, c_caller_closed

lifecycleVars == <<c_pc, c_args, c_held, c_owns, c_closes, c_close_calls, c_caller_closed>>

\* the keyword arguments of IdentifierResolver.__init__
GatewayArgs == {"semantic_scholar", "entrez", "pmc_converter"}

\* the default of each argument
NoClient == [made_by |-> "nobody", gateway |-> "None"]

LifecycleIdle == 
    /\ c_pc = "unbuilt"
    /\ c_args = [g \in GatewayArgs |-> NoClient]
    /\ c_held = [g \in GatewayArgs |-> NoClient]
    /\ c_owns = [g \in GatewayArgs |-> FALSE]
    /\ c_closes = [g \in GatewayArgs |-> 0]
    /\ c_close_calls = 0
    /\ c_caller_closed = [g \in GatewayArgs |-> FALSE]

\* the hash of a list of identifiers: the call made (hash_identifiers, or the
\* resolve command up to its output directory), its input and its latest result
VARIABLES h_pc, h_entry, h_identifiers, h_result

hashVars == <<h_pc, h_entry, h_identifiers, h_result>>

HashIdle == 
    /\ h_pc = "idle" /\ h_entry = "hash_identifiers" /\ h_identifiers = <<>>
    /\ h_result = ValueError

\* one call of FullTextFetcher.fetch_from_files: the rows of the input files, the
\* records still to fetch, the text found for the record in hand, the result so
\* far, and the calls made to the PubGet and ACE clients
VARIABLES f_pc, f_rows, f_todo, f_text, f_source, f_out, f_errors, f_sources, f_metadata_sources, f_calls

fullTextVars == <<f_pc, f_rows, f_todo, f_text, f_source, f_out, f_errors, f_sources, f_metadata_sources, f_calls>>

FullTextIdle == 
    /\ f_pc = "idle" /\ f_rows = <<>> /\ f_todo = <<>>
    /\ f_text = None /\ f_source = None
    /\ f_out = <<>> /\ f_errors = <<>> /\ f_sources = {} /\ f_metadata_sources = {}
    /\ f_calls = <<>>

\* one call of PubMedSearchService.search_pmids: whether the service was given a
\* client, the locals of the loop, the retstart parameter of every request sent,
\* every response received, the list returned, and the close() calls on the client
VARIABLES s_pc, s_supplied, s_retstart, s_total_count, s_pmids, s_requests, s_responses, s_result, s_closes

searchVars == <<s_pc, s_supplied, s_retstart, s_total_count, s_pmids, s_requests, s_responses, s_result, s_closes>>

\* total_count: Optional[int] = None
NoCount == [is_none |-> TRUE, value |-> 0]

SearchIdle == 
    /\ s_pc = "idle" /\ s_supplied = FALSE /\ s_retstart = 0 /\ s_total_count = NoCount
    /\ s_pmids = <<>> /\ s_requests = <<>> /\ s_responses = <<>>
    /\ s_result = <<>> /\ s_closes = 0

\* resolve_from_strings called on one batch in several orders, against
\* gateways whose responses are functions of the request (o_policies): the
\* result of the first call and the result of the latest one
VARIABLES o_pc, o_strings, o_policies, o_first, o_result

orderVars == <<o_pc, o_strings, o_policies, o_first, o_result>>

\* how a gateway answers a request
Policies == {"honest", "other", "first", "nothing", "raises"}

\* what a call of resolve_from_strings gives: it raises, or returns the records
NoResult == [raised |-> FALSE, records |-> <<>>]

OrderIdle == 
    /\ o_pc = "idle" /\ o_strings = <<>>
    /\ o_policies = [pmc |-> "honest", entrez |-> "honest", semantic |-> "honest",
                     table |-> <<>>]
    /\ o_first = NoResult /\ o_result = NoResult

\* the variables of the other operations, which a resolve or merge run leaves alone
otherVars == <<normalizeVars, lifecycleVars, hashVars, fullTextVars, searchVars, orderVars>>

OthersIdle == NormalizeIdle /\ LifecycleIdle /\ HashIdle /\ FullTextIdle /\ SearchIdle /\ OrderIdle

\* what the normalize operations leave alone, and the state it is in meanwhile
besidesNormalize == <<resolveVars, mergeVars, lifecycleVars, hashVars, fullTextVars, searchVars, orderVars>>
IdleBesidesNormalize == LifecycleIdle /\ HashIdle /\ FullTextIdle /\ SearchIdle /\ OrderIdle

\* what the lifecycle operations leave alone, and the state it is in meanwhile
besidesLifecycle == <<resolveVars, mergeVars, normalizeVars, hashVars, fullTextVars, searchVars, orderVars>>
IdleBesidesLifecycle == NormalizeIdle /\ HashIdle /\ FullTextIdle /\ SearchIdle /\ OrderIdle

\* what the hash operations leave alone, and the state it is in meanwhile
besidesHash == <<resolveVars, mergeVars, normalizeVars, lifecycleVars, fullTextVars, searchVars, orderVars>>
IdleBesidesHash == NormalizeIdle /\ LifecycleIdle /\ FullTextIdle /\ SearchIdle /\ OrderIdle

\* what the fullText operations leave alone, and the state it is in meanwhile
besidesFullText == <<resolveVars, mergeVars, normalizeVars, lifecycleVars, hashVars, searchVars, orderVars>>
IdleBesidesFullText == NormalizeIdle /\ LifecycleIdle /\ HashIdle /\ SearchIdle /\ OrderIdle

\* what the search operations leave alone, and the state it is in meanwhile
besidesSearch == <<resolveVars, mergeVars, normalizeVars, lifecycleVars, hashVars, fullTextVars, orderVars>>
IdleBesidesSearch == NormalizeIdle /\ LifecycleIdle /\ HashIdle /\ FullTextIdle /\ OrderIdle

\* what the order operations leave alone, and the state it is in meanwhile
besidesOrder == <<resolveVars, mergeVars, normalizeVars, lifecycleVars, hashVars, fullTextVars, searchVars>>
IdleBesidesOrder == NormalizeIdle /\ LifecycleIdle /\ HashIdle /\ FullTextIdle /\ SearchIdle

\* the most strings one batch holds
MaxInput == 3
\* the most strings one batch holds when the gateways answer arbitrarily
MaxInputArbitrary == 2
S_1 == <<"1">>
S_2 == <<"2">>
S_PMC1 == <<"P", "M", "C", "1">>
S_PMC2 == <<"P", "M", "C", "2">>
S_1a == <<"1", "/", "a">>
S_1b == <<"1", "/", "b">>

StringUniverse ==
    { S_1, <<"p", "m", "c", "1">>, S_PMC2, <<"1", "/", "A">>, <<" ">>, <<"x">> }

Publications ==
    { [pmid |-> S_1, pmcid |-> S_PMC1, doi |-> S_1a],
      [pmid |-> S_2, pmcid |-> S_PMC2, doi |-> S_1b] }

PublicationOf(kind, value) == CHOOSE p \in Publications : p[kind] = value

\* what a gateway may put under "pmid", "pmcid" and "doi"
GatewayPmids == {None, S_2, <<"x">>}
GatewayPmcids == {None, <<"p", "m", "c", "1">>, S_PMC2, <<"P", "M", "C", "x">>}
\* the keys the registry may answer under
GatewayPmcKeys == {<<"p", "m", "c", "1">>, <<"P", "M", "C", "x">>}
GatewayDois == {None, <<"1", "/", "B">>, <<"x">>}

Payload(pmid, pmcid, doi) == [pmid |-> pmid, pmcid |-> pmcid, doi |-> doi]

\* str(exc) of the PMCError, EntrezError or SemanticScholarError of a failed call
GatewayError(source, arg) == [source |-> source, arg |-> arg]
Call(gateway, arg, ok) == [gateway |-> gateway, arg |-> arg, ok |-> ok]

\* no resolve call is under way: what resolve starts from, lines 212-214
ResolveNotStarted ==
    /\ r_pc = "idle"
    /\ r_identifiers = <<>>
    /\ r_state = NewResolutionState
    /\ r_sources = {}
    /\ r_errors = <<>>
    /\ r_calls = <<>>
    /\ r_request = <<>>
    /\ r_items = <<>>
    /\ r_targets = <<>>

\* the command runs against honest gateways
InitResolve ==
    /\ \/ /\ r_entry = "cli" /\ r_gateways = "honest"
          /\ r_strings \in SeqsUpTo(StringUniverse, MaxInput)
       \/ /\ r_entry = "api" /\ r_gateways \in {"honest", "failing"}
          /\ r_strings \in SeqsUpTo(StringUniverse, MaxInput)
       \/ /\ r_entry = "api" /\ r_gateways = "arbitrary"
          /\ r_strings \in SeqsUpTo(StringUniverse, MaxInputArbitrary)
    /\ ResolveNotStarted

\* the call raised: ValueError, or the BadParameter of the CLI
Raised ==
    /\ r_pc' = "raised"
    /\ UNCHANGED <<r_identifiers, r_state, r_sources, r_errors, r_calls, r_request,
                   r_items, r_targets>>

\* resolve, lines 212-218, on the identifiers r.value; r is what normalizing the
\* batch gave
BeginResolve(r) ==
    IF ~r.ok THEN Raised
    ELSE /\ r_identifiers' = r.value
         /\ r_state' = SeedRecords(NewResolutionState, r.value)
         /\ r_pc' = IF r_state'.raised THEN "raised" ELSE "pmc"
         /\ UNCHANGED <<r_sources, r_errors, r_calls, r_request, r_items, r_targets>>

\* IdentifierResolver.resolve_from_strings(identifiers)
resolve_from_strings(strings) == NormalizeAll(strings, Ok(<<>>))

ResolveFromStrings ==
    /\ r_pc = "idle" /\ r_entry = "api"
    /\ BeginResolve(resolve_from_strings(r_strings))
    /\ UNCHANGED <<r_entry, r_gateways, r_strings, mergeVars, otherVars>>

\* cli.resolve_ids, lines 103-104: the stripped lines that are not blank
RECURSIVE NonBlankLines(_)
NonBlankLines(lines) ==
    IF lines = <<>> THEN <<>>
    ELSE IF StrStrip(Head(lines)) = <<>> THEN NonBlankLines(Tail(lines))
    ELSE <<StrStrip(Head(lines))>> \o NonBlankLines(Tail(lines))

\* cli.resolve_ids, lines 105-111
resolve_ids_normalized(identifiers) ==
    IF identifiers = <<>> THEN ValueError
    ELSE NormalizeAll(identifiers, Ok(<<>>))

\* cli.resolve_ids: the lines of the input file, up to resolver.resolve(normalized)
ResolveIdsCli ==
    /\ r_pc = "idle" /\ r_entry = "cli"
    /\ BeginResolve(resolve_ids_normalized(NonBlankLines(r_strings)))
    /\ UNCHANGED <<r_entry, r_gateways, r_strings, mergeVars, otherVars>>

NeverFails == r_gateways = "honest"
AnswersHonestly == r_gateways # "arbitrary"

\* what every action of a run leaves alone
Fixed == UNCHANGED <<r_entry, r_gateways, r_strings, r_identifiers, mergeVars, otherVars>>

\* line 221: no PMCID in the input, no registry call
PmcSkipped ==
    /\ r_pc = "pmc" /\ PmcidsOf(r_identifiers) = <<>>
    /\ r_pc' = "entrez"
    /\ UNCHANGED <<r_state, r_sources, r_errors, r_calls, r_request, r_items, r_targets>>
    /\ Fixed

\* lines 223, 234-235: convert raises PMCError
PmcConvertRaises ==
    /\ r_pc = "pmc" /\ PmcidsOf(r_identifiers) # <<>> /\ ~NeverFails
    /\ r_calls' = Append(r_calls, Call("pmc", PmcidsOf(r_identifiers), FALSE))
    /\ r_errors' = Append(r_errors, GatewayError("pmc", PmcidsOf(r_identifiers)))
    /\ r_pc' = "entrez"
    /\ UNCHANGED <<r_state, r_sources, r_request, r_items, r_targets>>
    /\ Fixed

\* lines 223-224: convert returns an empty dict
PmcConvertReturnsEmpty ==
    /\ r_pc = "pmc" /\ PmcidsOf(r_identifiers) # <<>> /\ ~AnswersHonestly
    /\ r_calls' = Append(r_calls, Call("pmc", PmcidsOf(r_identifiers), TRUE))
    /\ r_pc' = "entrez"
    /\ UNCHANGED <<r_state, r_sources, r_errors, r_request, r_items, r_targets>>
    /\ Fixed

\* lines 223-225: convert returns a dict that holds items
PmcConvertReturns ==
    /\ r_pc = "pmc" /\ PmcidsOf(r_identifiers) # <<>>
    /\ r_calls' = Append(r_calls, Call("pmc", PmcidsOf(r_identifiers), TRUE))
    /\ r_sources' = r_sources \cup {"pmc"}
    /\ r_request' = PmcidsOf(r_identifiers)
    /\ r_items' = <<>>
    /\ r_pc' = "pmc_items"
    /\ UNCHANGED <<r_state, r_errors, r_targets>>
    /\ Fixed

\* the state after one item of a gateway's dict, whose key is appended to r_items
AfterItem(st, key) ==
    /\ r_state' = st
    /\ r_items' = Append(r_items, key)
    /\ r_pc' = IF st.raised THEN "raised" ELSE r_pc
    /\ UNCHANGED <<r_sources, r_errors, r_calls, r_request, r_targets>>
    /\ Fixed

HonestPmcPayload(pmcid) ==
    Payload(PublicationOf("pmcid", pmcid).pmid, None, PublicationOf("pmcid", pmcid).doi)

\* the request, when the gateway answers it item by item
NextOfRequest ==
    IF Len(r_items) < Len(r_request) THEN {r_request[Len(r_items) + 1]} ELSE {}

PmcKeys ==
    IF AnswersHonestly THEN NextOfRequest ELSE GatewayPmcKeys \ AsSet(r_items)

PmcPayloads(pmcid) ==
    IF AnswersHonestly THEN {HonestPmcPayload(pmcid)}
    ELSE {Payload(pmid, None, doi) : pmid \in GatewayPmids, doi \in GatewayDois}

\* lines 226-233: the next item of conversions.items(); the registry names the
\* keys itself, so a key need not be one that was asked for
PmcNextItem ==
    /\ r_pc = "pmc_items"
    /\ \E pmcid \in PmcKeys : \E payload \in PmcPayloads(pmcid) :
          AfterItem(PmcItem(r_state, pmcid, payload), pmcid)

\* line 226: the loop over conversions.items() ends
PmcItemsDone ==
    /\ r_pc = "pmc_items" /\ r_items # <<>>
    /\ AnswersHonestly => Len(r_items) = Len(r_request)
    /\ r_pc' = "entrez"
    /\ UNCHANGED <<r_state, r_sources, r_errors, r_calls, r_request, r_items, r_targets>>
    /\ Fixed

\* line 242: no record holds a PMID, no Entrez call
EntrezSkipped ==
    /\ r_pc = "entrez" /\ PmidsOf(r_state) = <<>>
    /\ r_pc' = "targets"
    /\ UNCHANGED <<r_state, r_sources, r_errors, r_calls, r_request, r_items, r_targets>>
    /\ Fixed

\* the failed call is made a second time before the pass gives up
EntrezFetchRaisesAndRetries ==
    /\ r_pc = "entrez" /\ PmidsOf(r_state) # <<>> /\ ~NeverFails
    /\ r_calls' = Append(r_calls, Call("entrez", PmidsOf(r_state), FALSE))
    /\ r_errors' = Append(r_errors, GatewayError("entrez", PmidsOf(r_state)))
    /\ r_pc' = IF \E i \in 1..Len(r_calls) : r_calls[i].gateway = "entrez"
                THEN "targets" ELSE "entrez"
    /\ UNCHANGED <<r_state, r_sources, r_request, r_items, r_targets>>
    /\ Fixed

\* lines 244, 255-256: fetch_article_ids raises EntrezError
EntrezFetchRaises ==
    /\ r_pc = "entrez" /\ PmidsOf(r_state) # <<>> /\ ~NeverFails
    /\ r_calls' = Append(r_calls, Call("entrez", PmidsOf(r_state), FALSE))
    /\ r_errors' = Append(r_errors, GatewayError("entrez", PmidsOf(r_state)))
    /\ r_pc' = "targets"
    /\ UNCHANGED <<r_state, r_sources, r_request, r_items, r_targets>>
    /\ Fixed

\* lines 244-245: fetch_article_ids returns an empty dict
EntrezFetchReturnsEmpty ==
    /\ r_pc = "entrez" /\ PmidsOf(r_state) # <<>> /\ ~AnswersHonestly
    /\ r_calls' = Append(r_calls, Call("entrez", PmidsOf(r_state), TRUE))
    /\ r_pc' = "targets"
    /\ UNCHANGED <<r_state, r_sources, r_errors, r_request, r_items, r_targets>>
    /\ Fixed

\* lines 244-246: fetch_article_ids returns a dict that holds items
EntrezFetchReturns ==
    /\ r_pc = "entrez" /\ PmidsOf(r_state) # <<>>
    /\ r_calls' = Append(r_calls, Call("entrez", PmidsOf(r_state), TRUE))
    /\ r_sources' = r_sources \cup {"entrez"}
    /\ r_request' = PmidsOf(r_state)
    /\ r_items' = <<>>
    /\ r_pc' = "entrez_items"
    /\ UNCHANGED <<r_state, r_errors, r_targets>>
    /\ Fixed

HonestEntrezPayload(pmid) ==
    Payload(None, PublicationOf("pmid", pmid).pmcid, PublicationOf("pmid", pmid).doi)

\* the PMIDs of the request that come after every summary the loop has met
EntrezKeys ==
    IF AnswersHonestly THEN NextOfRequest
    ELSE {r_request[j] : j \in {i \in 1..Len(r_request) :
                                   \A k \in i..Len(r_request) : r_request[k] \notin AsSet(r_items)}}

EntrezPayloads(pmid) ==
    IF AnswersHonestly THEN {HonestEntrezPayload(pmid)}
    ELSE {Payload(None, pmcid, doi) : pmcid \in GatewayPmcids, doi \in GatewayDois}

\* lines 247-254: the next item of summaries.items(); EntrezClient fills the dict
\* in the order of the request and only under the PMIDs that were asked for
EntrezNextItem ==
    /\ r_pc = "entrez_items"
    /\ \E pmid \in EntrezKeys : \E payload \in EntrezPayloads(pmid) :
          AfterItem(EntrezItem(r_state, pmid, payload), pmid)

\* line 247: the loop over summaries.items() ends
EntrezItemsDone ==
    /\ r_pc = "entrez_items" /\ r_items # <<>>
    /\ AnswersHonestly => Len(r_items) = Len(r_request)
    /\ r_pc' = "targets"
    /\ UNCHANGED <<r_state, r_sources, r_errors, r_calls, r_request, r_items, r_targets>>
    /\ Fixed

\* lines 258-268
BuildSemanticTargets ==
    /\ r_pc = "targets"
    /\ r_targets' = SemanticTargets(r_state)
    /\ r_pc' = "semantic"
    /\ UNCHANGED <<r_state, r_sources, r_errors, r_calls, r_request, r_items>>
    /\ Fixed

\* the SemanticScholarError is not caught
SemanticFetchAborts ==
    /\ r_pc = "semantic" /\ r_targets # <<>> /\ ~NeverFails
    /\ r_calls' = Append(r_calls, Call("semantic-scholar", Head(r_targets).value, FALSE))
    /\ r_pc' = "raised"
    /\ UNCHANGED <<r_state, r_sources, r_errors, r_request, r_items, r_targets>>
    /\ Fixed

\* the failed call also drops the first record of the list
SemanticFetchRaisesAndDrops ==
    /\ r_pc = "semantic" /\ r_targets # <<>> /\ ~NeverFails
    /\ r_calls' = Append(r_calls, Call("semantic-scholar", Head(r_targets).value, FALSE))
    /\ r_errors' = Append(r_errors, GatewayError("semantic-scholar", Head(r_targets).value))
    /\ r_targets' = Tail(r_targets)
    /\ r_state' = [r_state EXCEPT !.records = Tail(@)]
    /\ UNCHANGED <<r_pc, r_sources, r_request, r_items>>
    /\ Fixed

\* lines 273-276: fetch_external_ids raises SemanticScholarError
SemanticFetchRaises ==
    /\ r_pc = "semantic" /\ r_targets # <<>> /\ ~NeverFails
    /\ r_calls' = Append(r_calls, Call("semantic-scholar", Head(r_targets).value, FALSE))
    /\ r_errors' = Append(r_errors, GatewayError("semantic-scholar", Head(r_targets).value))
    /\ r_targets' = Tail(r_targets)
    /\ UNCHANGED <<r_pc, r_state, r_sources, r_request, r_items>>
    /\ Fixed

\* lines 273, 277-278: fetch_external_ids returns None or an empty dict
SemanticFetchReturnsNothing ==
    /\ r_pc = "semantic" /\ r_targets # <<>> /\ ~AnswersHonestly
    /\ r_calls' = Append(r_calls, Call("semantic-scholar", Head(r_targets).value, TRUE))
    /\ r_targets' = Tail(r_targets)
    /\ UNCHANGED <<r_pc, r_state, r_sources, r_errors, r_request, r_items>>
    /\ Fixed

\* the state after the data of one external-ID call
AfterData(st) ==
    /\ r_state' = st
    /\ r_pc' = IF st.raised THEN "raised" ELSE r_pc
    /\ r_calls' = Append(r_calls, Call("semantic-scholar", Head(r_targets).value, TRUE))
    /\ r_sources' = r_sources \cup {"semantic-scholar"}
    /\ r_targets' = Tail(r_targets)
    /\ UNCHANGED <<r_errors, r_request, r_items>>
    /\ Fixed

HonestSemanticPayload(target) ==
    Payload(PublicationOf(target.kind, target.value).pmid,
            PublicationOf(target.kind, target.value).pmcid,
            PublicationOf(target.kind, target.value).doi)

SemanticPayloads(target) ==
    IF AnswersHonestly THEN {HonestSemanticPayload(target)}
    ELSE {Payload(pmid, pmcid, doi) :
            pmid \in GatewayPmids, pmcid \in GatewayPmcids, doi \in GatewayDois}

\* lines 273, 279-289: fetch_external_ids returns a dict that holds keys
SemanticFetchReturns ==
    /\ r_pc = "semantic" /\ r_targets # <<>>
    /\ \E data \in SemanticPayloads(Head(r_targets)) :
          AfterData(SemanticData(r_state, Head(r_targets).kind, Head(r_targets).value, data))

\* line 291
Return ==
    /\ r_pc = "semantic" /\ r_targets = <<>>
    /\ r_pc' = "done"
    /\ UNCHANGED <<r_state, r_sources, r_errors, r_calls, r_request, r_items, r_targets>>
    /\ Fixed

NextResolve ==
    \/ ResolveFromStrings
    \/ ResolveIdsCli
    \/ PmcSkipped
    \/ PmcConvertRaises
    \/ PmcConvertReturnsEmpty
    \/ PmcConvertReturns
    \/ PmcNextItem
    \/ PmcItemsDone
    \/ EntrezSkipped
    \/ EntrezFetchRaises
    \/ EntrezFetchReturnsEmpty
    \/ EntrezFetchReturns
    \/ EntrezNextItem
    \/ EntrezItemsDone
    \/ BuildSemanticTargets
    \/ SemanticFetchRaises
    \/ SemanticFetchReturnsNothing
    \/ SemanticFetchReturns
    \/ Return

\* ResolutionResult.records: the records of the state, as values
ResultRecords == [i \in 1..Len(r_state.records) |-> r_state.heap[r_state.records[i]]]

(***************************************************************************)
(* The merge runs.  The file system holds the JSONL files; a run calls     *)
(* merge_jsonl_files(m_paths).  After a first run the caller rearranges    *)
(* the same rows (two neighbouring rows of a file swapped, a row moved to  *)
(* another file of the call, the path arguments reordered) and runs the    *)
(* merge again; m_outcome is the outcome of the latest run.  Swaps and     *)
(* moves generate every permutation of the rows within and across the      *)
(* files.                                                                  *)
(***************************************************************************)
\* the most rows the files of one run hold together
MaxRows == 3

PathB == <<"b">>
PathAB == <<"a", "b">>
Paths == {PathB, PathAB}

Row(pmid, pmcid, doi) == [json |-> "object", pmid |-> pmid, pmcid |-> pmcid, doi |-> doi]

RowUniverse ==
    { Row(<<"1", "0">>, None, <<"1", "/", "A">>),
      Row(<<"9">>, None, <<"1", "/", "a">>),
      Row(None, <<"p", "m", "c", "1">>, <<"1", "/", "b">>),
      Row(<<"9">>, <<"P", "M", "C", "1">>, None),
      Row(<<" ">>, None, <<"x">>),
      Row(None, None, None) }

NotRun == MergeRaised

\* the files a call names exist and hold the rows; a path the call does not name
\* has no rows
InitMerge ==
    /\ m_pc = "idle"
    /\ m_outcome = NotRun
    /\ r_entry = "api" /\ r_gateways = "honest" /\ r_strings = <<>>
    /\ ResolveNotStarted
    /\ OthersIdle
    /\ \E rows \in SeqsUpTo(RowUniverse, MaxRows) : \E k \in 0..Len(rows) :
          /\ m_files = (PathAB :> SubSeq(rows, 1, k)) @@ (PathB :> SubSeq(rows, k + 1, Len(rows)))
          /\ \/ m_paths \in {<<PathB, PathAB>>, <<PathAB, PathB>>}
             \/ k = 0 /\ m_paths = <<PathB>>
             \/ rows = <<>> /\ m_paths = <<>>

InArgs(path, paths) == \E i \in 1..Len(paths) : paths[i] = path

SwapAt(rows, i) ==
    [j \in 1..Len(rows) |-> IF j = i THEN rows[i + 1] ELSE IF j = i + 1 THEN rows[i] ELSE rows[j]]

\* the first run
MergeJsonlFiles ==
    /\ m_pc = "idle"
    /\ m_pc' = "done"
    /\ m_outcome' = merge_jsonl_files(m_paths, m_files)
    /\ UNCHANGED <<m_paths, m_files, resolveVars, otherVars>>

\* two neighbouring rows of one input file are swapped, then the merge runs again
MergeRowsSwapped ==
    /\ m_pc = "done"
    /\ \E path \in Paths : \E i \in 1..(Len(m_files[path]) - 1) :
          /\ InArgs(path, m_paths)
          /\ m_files[path][i] # m_files[path][i + 1]
          /\ m_files' = [m_files EXCEPT ![path] = SwapAt(@, i)]
    /\ m_outcome' = merge_jsonl_files(m_paths, m_files')
    /\ UNCHANGED <<m_pc, m_paths, resolveVars, otherVars>>

\* the last row of one input file is moved to the end of another, then the merge
\* runs again
MergeRowMoved ==
    /\ m_pc = "done"
    /\ \E from \in Paths : \E to \in Paths \ {from} :
          /\ InArgs(from, m_paths) /\ InArgs(to, m_paths)
          /\ m_files[from] # <<>>
          /\ m_files' = [m_files EXCEPT
                           ![from] = SubSeq(@, 1, Len(@) - 1),
                           ![to] = Append(@, m_files[from][Len(m_files[from])])]
    /\ m_outcome' = merge_jsonl_files(m_paths, m_files')
    /\ UNCHANGED <<m_pc, m_paths, resolveVars, otherVars>>

\* the same files are passed in another argument order, then the merge runs again
MergePathsReordered ==
    /\ m_pc = "done"
    /\ Len(m_paths) = 2
    /\ m_paths' = <<m_paths[2], m_paths[1]>>
    /\ m_outcome' = merge_jsonl_files(m_paths', m_files)
    /\ UNCHANGED <<m_pc, m_files, resolveVars, otherVars>>

NextMerge ==
    \/ MergeJsonlFiles
    \/ MergeRowsSwapped
    \/ MergeRowMoved
    \/ MergePathsReordered

vars == <<resolveVars, mergeVars, otherVars>>

MergeSpec == InitMerge /\ [][NextMerge]_vars

\* the resolve runs: no merge is under way
Init ==
    /\ InitResolve
    /\ m_pc = "idle" /\ m_paths = <<>> /\ m_outcome = NotRun
    /\ m_files = (PathAB :> <<>>) @@ (PathB :> <<>>)
    /\ OthersIdle

Next == NextResolve

Spec == Init /\ [][Next]_vars

(***************************************************************************)
(* The co-occurrence graph of a merge input, defined from the rows alone:  *)
(* its vertices are the identifiers the rows of the named files hold, two  *)
(* identifiers are joined when one row holds both.                         *)
(***************************************************************************)
RowIdentifiers(row) ==
    IF row.json # "object" THEN {}
    ELSE {normalize_identifier(row[k]).value :
            k \in {j \in Kinds : row[j] # None /\ normalize_identifier(row[j]).ok}}

InputRowsOf(paths, fs) == UNION {{fs[paths[n]][i] : i \in 1..Len(fs[paths[n]])} : n \in 1..Len(paths)}

\* the identifier sets of the rows: the cliques of the graph
RowIdentifierSets(rows) == {RowIdentifiers(r) : r \in rows}

NeighboursOf(cliques, S) == UNION {I \in cliques : I \cap S # {}}

RECURSIVE ReachableFrom(_, _)
ReachableFrom(cliques, S) ==
    IF NeighboursOf(cliques, S) \subseteq S THEN S
    ELSE ReachableFrom(cliques, S \cup NeighboursOf(cliques, S))

ComponentsOfCliques(cliques) == {ReachableFrom(cliques, {v}) : v \in UNION cliques}

InputComponents == ComponentsOfCliques(RowIdentifierSets(InputRowsOf(m_paths, m_files)))

\* the identifiers an output record holds
RecordIdentifiers(record) == {Ident(k, record[k]) : k \in {j \in Kinds : record[j] # None}}

ValuesOfKind(component, kind) == {id.value : id \in {x \in component : x.kind = kind}}

HasConflict(component) == \E kind \in Kinds : Cardinality(ValuesOfKind(component, kind)) > 1

ConflictErrors(errors) == {i \in 1..Len(errors) : errors[i].tag = "Conflicting"}

Returned == m_pc = "done" /\ ~m_outcome.raised

\* the output records that hold an identifier of the component
RecordsOfComponent(records, component) ==
    {i \in 1..Len(records) : RecordIdentifiers(records[i]) \cap component # {}}

\* every row is a JSON object with an identifier, and each of its values is None
\* or normalizes
CleanRow(row) ==
    /\ row.json = "object"
    /\ RowIdentifiers(row) # {}
    /\ \A k \in Kinds : row[k] = None \/ normalize_identifier(row[k]).ok

OneRecordPerComponent(records, components) ==
    /\ Len(records) = Cardinality(components)
    /\ \A c \in components : Cardinality(RecordsOfComponent(records, c)) = 1

CompleteRecords(records, components) ==
    \A c \in components : ~HasConflict(c) =>
        \A i \in RecordsOfComponent(records, c) : RecordIdentifiers(records[i]) = c

\* C4 (as amended): merge returns exactly one record per connected component of the
\* co-occurrence graph of the input identifiers; when no component holds two values
\* of one kind, each record holds every identifier of its component and the error
\* list holds no conflict error, and it is empty when moreover every input row is
\* an object with an identifier whose values all normalize.
C4_OneRecordPerComponent ==
    Returned =>
        /\ OneRecordPerComponent(m_outcome.records, InputComponents)
        /\ (\A c \in InputComponents : ~HasConflict(c)) =>
              /\ CompleteRecords(m_outcome.records, InputComponents)
              /\ ConflictErrors(m_outcome.errors) = {}
              /\ (\A r \in InputRowsOf(m_paths, m_files) : CleanRow(r)) => m_outcome.errors = <<>>

\* C4 as claimed: without a conflict the error list is empty, whatever the rows
C4_Original ==
    Returned =>
        /\ OneRecordPerComponent(m_outcome.records, InputComponents)
        /\ (\A c \in InputComponents : ~HasConflict(c)) =>
              /\ CompleteRecords(m_outcome.records, InputComponents)
              /\ m_outcome.errors = <<>>

\* two rows of two files joined into one component by the identifier they share,
\* and no conflict
C4_Witness ==
    /\ Returned
    /\ Len(m_outcome.records) = 1
    /\ Len(m_files[PathAB]) = 1 /\ Len(m_files[PathB]) = 1
    /\ \A r \in InputRowsOf(m_paths, m_files) : CleanRow(r)
    /\ \A c \in InputComponents : ~HasConflict(c) /\ Cardinality(c) = 3
    /\ m_outcome.errors = <<>>

\* C5: the identifiers of an output record of merge all lie in one connected
\* component of the co-occurrence graph: identifiers no chain of rows links never
\* share a record.
C5_ComponentsStaySeparate ==
    Returned =>
        \A i \in 1..Len(m_outcome.records) :
            \E c \in InputComponents : RecordIdentifiers(m_outcome.records[i]) \subseteq c

\* two components, one of them built from two rows
C5_Witness ==
    /\ Returned
    /\ Len(m_outcome.records) = 2
    /\ Cardinality(InputComponents) = 2
    /\ \E c \in InputComponents : Cardinality(c) = 3

Smallest(values) == CHOOSE v \in values : \A w \in values : v = w \/ StrLess(v, w)

\* the conflict errors that name this kind and exactly these values
ErrorsNaming(errors, kind, values) ==
    {i \in ConflictErrors(errors) : errors[i].kind = kind /\ AsSet(errors[i].values) = values}

ConflictHandled(outcome, c, kind, values) ==
    IF Cardinality(values) > 1
    THEN /\ Cardinality(ErrorsNaming(outcome.errors, kind, values)) = 1
         /\ \A i \in RecordsOfComponent(outcome.records, c) :
               outcome.records[i][kind] = Smallest(values)
    ELSE \A i \in ConflictErrors(outcome.errors) :
            outcome.errors[i].kind = kind => AsSet(outcome.errors[i].values) \cap values = {}

\* C6: for every group and kind, two or more distinct values give exactly one error
\* naming the kind and the values, and the record holds the smallest value in
\* string order; at most one value gives no conflict error for that kind.
C6_ConflictPolicy ==
    Returned =>
        \A c \in InputComponents : \A kind \in Kinds :
            ConflictHandled(m_outcome, c, kind, ValuesOfKind(c, kind))

\* the pmids "10" and "9" conflict: "10" is the smaller string, 9 the smaller number
C6_Witness ==
    /\ Returned
    /\ Len(m_outcome.records) = 1
    /\ m_outcome.records[1].pmid = <<"1", "0">>
    /\ \E i \in ConflictErrors(m_outcome.errors) :
          m_outcome.errors[i].values = << <<"1", "0">>, <<"9">> >>

\* C7: a run of merge on the same rows, rearranged within a file or across the
\* files, returns the same records in the same order.
C7_RecordsOrderIndependent ==
    [][m_pc = "done" => m_outcome'.records = m_outcome.records]_vars

\* two records whose order of first appearance in the input is not the output order
C7_Witness ==
    /\ Returned
    /\ Len(m_outcome.records) = 2
    /\ m_files[PathAB] # <<>> /\ m_files[PathB] # <<>>
    /\ m_outcome.records[2].pmid # None
    /\ RecordIdentifiers(m_outcome.records[2]) \cap RowIdentifiers(m_files[PathAB][1]) # {}

\* C8 as claimed: a run of merge on the same rows, rearranged within a file or
\* across the files, returns the same input_hash.
C8_HashOrderIndependent ==
    [][m_pc = "done" => m_outcome'.input_hash = m_outcome.input_hash]_vars

IsSortedPaths(seq) == \A i \in 1..(Len(seq) - 1) : ~StrLess(seq[i + 1], seq[i])

\* C9: merge_jsonl_files on the same files in another argument order returns the
\* same records and the same input_hash, and source_files lists the paths in
\* lexicographic order, not in argument order.
C9_ArgumentOrder ==
    [][/\ (m_pc' = "done" /\ ~m_outcome'.raised) =>
            /\ IsSortedPaths(m_outcome'.source_files)
            /\ AsSet(m_outcome'.source_files) = AsSet(m_paths')
            /\ Len(m_outcome'.source_files) = Len(m_paths')
       /\ (m_pc = "done" /\ m_files' = m_files) =>
            /\ m_outcome'.records = m_outcome.records
            /\ m_outcome'.input_hash = m_outcome.input_hash
            /\ m_outcome'.source_files = m_outcome.source_files]_vars

\* the paths were passed in descending order and both files hold rows
C9_Witness ==
    /\ Returned
    /\ m_paths = <<PathB, PathAB>>
    /\ m_outcome.source_files = <<PathAB, PathB>>
    /\ m_files[PathAB] # <<>> /\ m_files[PathB] # <<>> /\ m_files[PathAB] # m_files[PathB]
    /\ m_outcome.records # <<>>

(***************************************************************************)
(* The resolve runs: what a call was given and what it did.                *)
(***************************************************************************)
ResolveReturned == r_pc = "done"
ResolveRaised == r_pc = "raised"

\* the identifiers of the batch all name the publication p
NamesOnly(p) ==
    \A i \in 1..Len(r_identifiers) : p[r_identifiers[i].kind] = r_identifiers[i].value

\* the batch names p by its identifier of this kind
NamesBy(p, kind) ==
    \E i \in 1..Len(r_identifiers) :
        r_identifiers[i].kind = kind /\ r_identifiers[i].value = p[kind]

AllSources == {"pmc", "entrez", "semantic-scholar"}

\* C1: with gateways that all succeed and answer with the triple of the publication,
\* a batch that names one publication by its PMID and its PMCID, and perhaps its
\* DOI, in any order, resolves to exactly one record holding the three values, with
\* the three sources used and no error.
C1_OneRecordPerPublication ==
    (ResolveReturned /\ r_gateways = "honest") =>
        \A p \in Publications :
            (NamesOnly(p) /\ NamesBy(p, "pmid") /\ NamesBy(p, "pmcid")) =>
                /\ ResultRecords = <<p>>
                /\ r_sources = AllSources
                /\ r_errors = <<>>

\* the batch was DOI, PMCID, PMID of one publication: three records seeded, one left
C1_Witness ==
    /\ ResolveReturned /\ r_gateways = "honest"
    /\ Len(r_identifiers) = 3
    /\ r_identifiers[1].kind = "doi" /\ r_identifiers[2].kind = "pmcid"
    /\ r_identifiers[3].kind = "pmid"
    /\ Len(r_state.heap) = 3
    /\ ResultRecords = <<[pmid |-> S_1, pmcid |-> S_PMC1, doi |-> S_1a]>>
    /\ r_sources = AllSources

\* the errors the failed calls of a list of calls leave, in the order of the calls
RECURSIVE ErrorsOfCalls(_)
ErrorsOfCalls(calls) ==
    IF calls = <<>> THEN <<>>
    ELSE (IF Head(calls).ok THEN <<>> ELSE <<GatewayError(Head(calls).gateway, Head(calls).arg)>>)
         \o ErrorsOfCalls(Tail(calls))

FailedCalls(gateway) ==
    {i \in 1..Len(r_calls) : r_calls[i].gateway = gateway /\ ~r_calls[i].ok}

\* C2: whichever gateway calls fail, resolve does not raise once it calls the
\* gateways, and its error list holds one entry per failed call, in the order the
\* calls were made.
C2_FailuresAreData ==
    /\ r_errors = ErrorsOfCalls(r_calls)
    /\ (r_gateways \in {"honest", "failing"} /\ r_calls # <<>>) => ~ResolveRaised

\* the registry call, the article-ID call and one of two external-ID calls failed
C2_Witness ==
    /\ ResolveReturned /\ r_gateways = "failing"
    /\ FailedCalls("pmc") # {} /\ FailedCalls("entrez") # {}
    /\ Cardinality(FailedCalls("semantic-scholar")) = 1
    /\ \E i \in 1..Len(r_calls) : r_calls[i].gateway = "semantic-scholar" /\ r_calls[i].ok
    /\ Len(r_errors) = 3
    /\ r_errors[3].source = "semantic-scholar"

\* the strings of the batch all normalize, as the entry point reads the batch
InputNormalizes ==
    IF r_entry = "api" THEN resolve_from_strings(r_strings).ok
    ELSE resolve_ids_normalized(NonBlankLines(r_strings)).ok

\* C3 as claimed: given input identifiers that normalize, resolve never raises,
\* whatever the gateways answer.
C3_NeverRaises == InputNormalizes => ~ResolveRaised

\* a string of the batch is blank or malformed
BadString(string) == ~normalize_identifier(string).ok
BadStrings == {i \in 1..Len(r_strings) : BadString(r_strings[i])}
\* a line of the input file that is not blank and is malformed
BadLines == {i \in BadStrings : StrStrip(r_strings[i]) # <<>>}
BlankFile == \A i \in 1..Len(r_strings) : StrStrip(r_strings[i]) = <<>>

\* the call failed, or is about to, and no gateway was called
FailsBeforeAnyCall == r_pc \in {"idle", "raised"} /\ r_calls = <<>>

\* C10: a blank or malformed string anywhere in the batch makes
\* resolve_from_strings fail before any gateway call; the resolve command drops the
\* blank lines of its file first, and fails before any gateway call when a line that
\* is left is malformed or when no line is left.
C10_FailFast ==
    /\ (r_entry = "api" /\ BadStrings # {}) => FailsBeforeAnyCall
    /\ (r_entry = "cli" /\ (BadLines # {} \/ BlankFile)) => FailsBeforeAnyCall

\* C10 as claimed: a blank or malformed string makes both entry points fail before
\* any gateway call
C10_Original == BadStrings # {} => FailsBeforeAnyCall

\* resolve_from_strings raised on a batch whose last string alone is malformed
C10_Witness ==
    /\ r_entry = "api" /\ ResolveRaised /\ r_calls = <<>>
    /\ BadStrings = {Len(r_strings)}
    /\ Len(r_strings) >= 2 /\ ~BadString(r_strings[1])

(***************************************************************************)
(* Rows whose values normalize_identifier rejects.                         *)
(***************************************************************************)
\* merge.py, line 103: the values the loop does not skip
ValueIsGiven(value) == value # None /\ StrStrip(value) # <<>>

\* a value of the row reaches normalize_identifier and fails there
HoldsRejectedValue(row) ==
    /\ row.json = "object"
    /\ \E k \in Kinds : ValueIsGiven(row[k]) /\ ~normalize_identifier(row[k]).ok

\* C11 as claimed: when a row given to merge holds an identifier value that fails
\* normalization, the parse error reaches the caller and merge returns no result.
C11_ParseErrorAborts ==
    (m_pc = "done" /\ \E r \in InputRowsOf(m_paths, m_files) : HoldsRejectedValue(r))
        => m_outcome.raised

(***************************************************************************)
(* The normalizer on its own: normalize_identifier is called on a string   *)
(* n_raw, and when it returned an identifier it is called again on the     *)
(* canonical value of that identifier.  The strings are a prefix, a body   *)
(* and a tail drawn from the sets below, which hold every prefix the rules *)
(* of normalize_identifier look at, in both cases, and bodies that pass    *)
(* and fail each validation.                                               *)
(***************************************************************************)
RawPrefixes ==
    { <<>>, <<"p", "m", "i", "d", ":">>, <<"P", "M", "I", "D", ":">>,
      <<"p", "m", "c", "i", "d", ":">>, <<"P", "m", "c", "I", "d", ":">>,
      <<"p", "m", "c">>, <<"P", "M", "C">>, <<"d", "o", "i", ":">>,
      <<"D", "O", "I", ":">>, <<" ">> }

RawBodies ==
    { <<>>, <<"1">>, <<"1", "2">>, <<"1", "/", "a">>, <<"1", "/", "A">>,
      <<" ", "1", "/", "a">>, <<"x">>, <<"d", "o", "i", ":", "1", "/", "a">>,
      <<"p", "m", "c", "/", "1">>, <<"/">>, <<"p", "m", "c", "1">> }

RawTails == { <<>>, <<" ">> }

RawUniverse == {p \o b \o t : p \in RawPrefixes, b \in RawBodies, t \in RawTails}

\* no resolve and no merge is under way
ResolveIdle ==
    /\ r_entry = "api" /\ r_gateways = "honest" /\ r_strings = <<>>
    /\ ResolveNotStarted

MergeIdle ==
    /\ m_pc = "idle" /\ m_paths = <<>> /\ m_outcome = NotRun
    /\ m_files = (PathAB :> <<>>) @@ (PathB :> <<>>)

InitNormalize ==
    /\ n_pc = "idle"
    /\ n_raw \in RawUniverse
    /\ n_result = ValueError
    /\ n_again = ValueError
    /\ ResolveIdle
    /\ MergeIdle
    /\ IdleBesidesNormalize

\* normalize_identifier(n_raw)
NormalizeIdentifier ==
    /\ n_pc = "idle"
    /\ n_result' = normalize_identifier(n_raw)
    /\ n_pc' = IF n_result'.ok THEN "normalized" ELSE "rejected"
    /\ UNCHANGED <<n_raw, n_again, besidesNormalize>>

\* normalize_identifier(result.value), on the identifier the first call returned
NormalizeCanonical ==
    /\ n_pc = "normalized"
    /\ n_again' = normalize_identifier(n_result.value.value)
    /\ n_pc' = "renormalized"
    /\ UNCHANGED <<n_raw, n_result, besidesNormalize>>

NextNormalize ==
    \/ NormalizeIdentifier
    \/ NormalizeCanonical

NormalizeSpec == InitNormalize /\ [][NextNormalize]_vars

\* C12 as claimed: for every string normalize_identifier accepts, normalizing the
\* canonical value of the result succeeds and gives the same kind and value.
C12_Idempotent ==
    n_pc = "renormalized" => n_again = n_result

\* the rule of the dispatch order that is the first to match the trimmed string
FirstMatchingRule(raw, lowered) ==
    IF StrStartsWith(lowered, <<"p", "m", "i", "d", ":">>) THEN "pmid: prefix"
    ELSE IF StrStartsWith(lowered, <<"p", "m", "c", "i", "d", ":">>) THEN "pmcid: prefix"
    ELSE IF StrStartsWith(lowered, <<"p", "m", "c">>) THEN "leading pmc"
    ELSE IF StrIsDigit(raw) THEN "all digits"
    ELSE IF StrContains(raw, "/") THEN "holds /"
    ELSE "none"

KindOfRule(rule) ==
    IF rule \in {"pmid: prefix", "all digits"} THEN "pmid"
    ELSE IF rule \in {"pmcid: prefix", "leading pmc"} THEN "pmcid"
    ELSE "doi"

\* the validation of the kind the rule chose, on the text the rule hands over
ValidationOfRule(rule, raw) ==
    IF rule = "pmid: prefix" THEN normalize_pmid(SplitAfterColon(raw))
    ELSE _normalize_value(KindOfRule(rule), raw)

DecidedBy(rule, validated, result) ==
    IF rule = "none" \/ ~validated.ok THEN ~result.ok
    ELSE result = Ok(Ident(KindOfRule(rule), validated.value))

DecidedByFirstRule(raw, rule, result) ==
    IF raw = <<>> THEN ~result.ok
    ELSE DecidedBy(rule, IF rule = "none" THEN ValueError ELSE ValidationOfRule(rule, raw), result)

\* C13: normalize_identifier decides the kind by the first rule that matches the
\* trimmed string, in the order 'pmid:' prefix (PMID), 'pmcid:' prefix or leading
\* 'pmc' (PMCID), all digits (PMID), holds '/' (DOI), prefixes compared without
\* case; the call fails when no rule matches, and when the validation of the kind
\* chosen fails no later rule is tried.
C13_DispatchOrder ==
    n_pc # "idle" =>
        DecidedByFirstRule(StrStrip(n_raw),
                           FirstMatchingRule(StrStrip(n_raw), StrLower(StrStrip(n_raw))),
                           n_result)

\* a string the 'pmc' rule and the '/' rule both match: PMCID is chosen, its
\* validation fails, and the call fails although the string would pass as a DOI
C13_Witness ==
    /\ n_pc = "rejected"
    /\ StrStartsWith(StrLower(StrStrip(n_raw)), <<"p", "m", "c">>)
    /\ normalize_doi(n_raw).ok

\* the calls to the gateway that returned without failure
ReturnedCalls(calls, gateway) ==
    {i \in 1..Len(calls) : calls[i].gateway = gateway /\ calls[i].ok}

\* C14 as claimed: after resolve, the name of a gateway is in sources_used if and
\* only if at least one call to that gateway returned without failure during the
\* run, whatever the call returned.
C14_SourcesUsed ==
    ResolveReturned =>
        \A g \in AllSources : g \in r_sources <=> ReturnedCalls(r_calls, g) # {}

\* a record is named by its place in the heap, and the heap grows by one at each
\* creation: the smaller name was created first
CreatedBefore(r1, r2) == r1 < r2

InCreationOrder(records) ==
    \A i \in 1..Len(records) : \A j \in 1..Len(records) :
        i < j => CreatedBefore(records[i], records[j])

\* C15: the record list of a resolve run is at all times in creation order, so the
\* records resolve returns are: when r1 precedes r2, r1 was created before r2,
\* after any sequence of attachments and merges.
C15_CreationOrder == InCreationOrder(r_state.records)

\* a returned run that merged a record away from between two records that stay
C15_Witness ==
    /\ ResolveReturned
    /\ \E i \in 1..(Len(r_state.records) - 1) :
          r_state.records[i + 1] > r_state.records[i] + 1

\* the first field of the record that is not null, in the priority pmid, pmcid, doi
FirstKindOf(record) ==
    IF record.pmid # None THEN "pmid" ELSE IF record.pmcid # None THEN "pmcid" ELSE "doi"

\* '<kind>:<value>' of that field
KeyOfRecord(record) ==
    KindChars(FirstKindOf(record)) \o <<":">> \o record[FirstKindOf(record)]

\* C16: the records merge returns are in strictly ascending string order of the
\* key '<kind>:<value>' of their first non-null field in the priority pmid, pmcid,
\* doi; no two records have the same key.
C16_RecordsSortedByKey ==
    Returned =>
        /\ \A i \in 1..Len(m_outcome.records) : RecordIdentifiers(m_outcome.records[i]) # {}
        /\ \A i \in 1..(Len(m_outcome.records) - 1) :
              StrLess(KeyOfRecord(m_outcome.records[i]), KeyOfRecord(m_outcome.records[i + 1]))

\* a record keyed by its pmcid comes before a record keyed by its pmid, though the
\* row of the second comes first in the input and its doi is the smaller one
C16_Witness ==
    /\ Returned
    /\ Len(m_outcome.records) = 2
    /\ FirstKindOf(m_outcome.records[1]) = "pmcid"
    /\ FirstKindOf(m_outcome.records[2]) = "pmid"
    /\ StrLess(m_outcome.records[2].doi, m_outcome.records[1].doi)
    /\ m_files[PathAB] # <<>>
    /\ RowIdentifiers(m_files[PathAB][1]) \subseteq RecordIdentifiers(m_outcome.records[2])

(***************************************************************************)
(* The life of one IdentifierResolver.  The caller passes a client or None *)
(* for each gateway, builds the resolver, uses it with or without the with *)
(* statement, and may call close() more than once; the caller may close a  *)
(* client of its own at any moment.  The clients are instances of the      *)
(* client classes of the package, which are true in a boolean context.     *)
(* c_closes counts the close() calls the resolver made on the client it    *)
(* holds for each gateway.                                                 *)
(***************************************************************************)
\* the most calls of IdentifierResolver.close() outside the with statement
MaxCloseCalls == 2

CallerClient(g) == [made_by |-> "caller", gateway |-> g]

\* SemanticScholarClient(), EntrezSummaryClient(), PMCIdConverter()
DefaultClient(g) == [made_by |-> "resolver", gateway |-> g]

\* bool(client): None is false, an instance of a client class is true
ClientTruthy(client) == client # NoClient

\* lines 185-187: supplied or <client class>()
SuppliedOrDefault(supplied, g) == IF ClientTruthy(supplied) THEN supplied ELSE DefaultClient(g)

\* every client counts as the resolver's own
owns_client_always(supplied) == TRUE

\* lines 188-190: supplied is None
owns_client(supplied) == supplied = NoClient

\* close(), lines 193-199, on the count of close() calls each held client received
close(owns, closes) == [g \in GatewayArgs |-> IF owns[g] THEN closes[g] + 1 ELSE closes[g]]

InitLifecycle ==
    /\ c_pc = "unbuilt"
    /\ c_args \in [GatewayArgs -> {"None", "client"}]
    /\ c_held = [g \in GatewayArgs |-> NoClient]
    /\ c_owns = [g \in GatewayArgs |-> FALSE]
    /\ c_closes = [g \in GatewayArgs |-> 0]
    /\ c_close_calls = 0
    /\ c_caller_closed = [g \in GatewayArgs |-> FALSE]
    /\ ResolveIdle
    /\ MergeIdle
    /\ IdleBesidesLifecycle

SuppliedClient(g) == IF c_args[g] = "None" THEN NoClient ELSE CallerClient(g)

\* IdentifierResolver(semantic_scholar=..., entrez=..., pmc_converter=...)
Construct ==
    /\ c_pc = "unbuilt"
    /\ c_held' = [g \in GatewayArgs |-> SuppliedOrDefault(SuppliedClient(g), g)]
    /\ c_owns' = [g \in GatewayArgs |-> owns_client(SuppliedClient(g))]
    /\ c_pc' = "built"
    /\ UNCHANGED <<c_args, c_closes, c_close_calls, c_caller_closed, besidesLifecycle>>

\* __enter__
Enter ==
    /\ c_pc = "built"
    /\ c_pc' = "entered"
    /\ UNCHANGED <<c_args, c_held, c_owns, c_closes, c_close_calls, c_caller_closed,
                   besidesLifecycle>>

\* __exit__: self.close()
Exit ==
    /\ c_pc = "entered"
    /\ c_pc' = "exited"
    /\ c_closes' = close(c_owns, c_closes)
    /\ c_close_calls' = c_close_calls + 1
    /\ UNCHANGED <<c_args, c_held, c_owns, c_caller_closed, besidesLifecycle>>

\* resolver.close(), called by the caller
Close ==
    /\ c_pc \in {"built", "entered", "exited"}
    /\ c_close_calls < MaxCloseCalls
    /\ c_closes' = close(c_owns, c_closes)
    /\ c_close_calls' = c_close_calls + 1
    /\ UNCHANGED <<c_pc, c_args, c_held, c_owns, c_caller_closed, besidesLifecycle>>

\* the caller closes a client it passed to the resolver
CallerClosesClient ==
    /\ \E g \in GatewayArgs :
          /\ c_args[g] = "client"
          /\ ~c_caller_closed[g]
          /\ c_caller_closed' = [c_caller_closed EXCEPT ![g] = TRUE]
    /\ UNCHANGED <<c_pc, c_args, c_held, c_owns, c_closes, c_close_calls, besidesLifecycle>>

NextLifecycle ==
    \/ Construct
    \/ Enter
    \/ Exit
    \/ Close
    \/ CallerClosesClient

LifecycleSpec == InitLifecycle /\ [][NextLifecycle]_vars

ConstructedByResolver(g) == c_held[g].made_by = "resolver"
HandedInByCaller(g) == c_held[g].made_by = "caller"

\* C17: once close() has run, by a call or on leaving the with statement, the
\* resolver has closed the client of a gateway if and only if it constructed that
\* client itself; it never closes a client the caller handed in, for every
\* combination of supplied and defaulted gateways.
C17_ClosesOwnClients ==
    /\ \A g \in GatewayArgs : HandedInByCaller(g) => c_closes[g] = 0
    /\ c_close_calls > 0 =>
          \A g \in GatewayArgs : c_closes[g] > 0 <=> ConstructedByResolver(g)

\* the with statement was left, with a supplied and a defaulted client
C17_Witness ==
    /\ c_pc = "exited"
    /\ c_close_calls = 1
    /\ \E g \in GatewayArgs : HandedInByCaller(g) /\ c_closes[g] = 0
    /\ \E g \in GatewayArgs : ConstructedByResolver(g) /\ c_closes[g] = 1

(***************************************************************************)
(* storage.py: the hash of an identifier list, and the output directory    *)
(* the resolve command derives from it.  After a first call the caller     *)
(* swaps two neighbouring identifiers (or lines of the input file) and     *)
(* calls again; h_result is the result of the latest call.  Swaps of       *)
(* neighbours generate every permutation.                                  *)
(***************************************************************************)
\* the most identifiers of one list
MaxIdentifiers == 3

HashUniverse ==
    { <<"1">>, <<" ", "1">>, <<"p", "m", "c", "1">>, <<"1", "/", "A">>, <<" ">>, <<"x">> }

\* line 13: the stripped identifiers that are not blank
RECURSIVE CleanedIdentifiers(_)
CleanedIdentifiers(identifiers) ==
    IF identifiers = <<>> THEN <<>>
    ELSE IF StrStrip(Head(identifiers)) = <<>> THEN CleanedIdentifiers(Tail(identifiers))
    ELSE <<StrStrip(Head(identifiers))>> \o CleanedIdentifiers(Tail(identifiers))

\* the cleaned identifiers in the order given
_normalize_identifiers_unsorted(identifiers) == CleanedIdentifiers(identifiers)

\* _normalize_identifiers, lines 12-17
_normalize_identifiers(identifiers) == SortedBy(StrLess, CleanedIdentifiers(identifiers))

\* NORMALIZED_SEPARATOR.join(normalized)
RECURSIVE JoinLines(_)
JoinLines(strs) ==
    IF strs = <<>> THEN <<>>
    ELSE IF Len(strs) = 1 THEN Head(strs)
    ELSE Head(strs) \o <<"\n">> \o JoinLines(Tail(strs))

\* lines 24-28
hash_identifiers_normalized(normalized) ==
    IF normalized = <<>> THEN ValueError
    ELSE Ok(Sha256Hex16(JoinLines(normalized)))

hash_identifiers(identifiers) == hash_identifiers_normalized(_normalize_identifiers(identifiers))

\* lines 34-37: base_dir / hashed
build_hashed_output_dir_hashed(base_dir, hashed) ==
    IF ~hashed.ok THEN ValueError
    ELSE Ok([parent |-> base_dir, name |-> hashed.value])

build_hashed_output_dir(base_dir, identifiers) ==
    build_hashed_output_dir_hashed(base_dir, hash_identifiers(identifiers))

\* cli.resolve_ids, line 116
HashedComponents(normalized) == [i \in 1..Len(normalized) |-> hash_component(normalized[i])]

\* cli.resolve_ids, lines 105-118: r is what normalizing the lines gave
resolve_ids_run_dir_normalized(r) ==
    IF ~r.ok THEN ValueError
    ELSE build_hashed_output_dir("interim/resolved", HashedComponents(r.value))

\* cli.resolve_ids, lines 103-118: the output directory of the run, or BadParameter
resolve_ids_run_dir(lines) ==
    resolve_ids_run_dir_normalized(resolve_ids_normalized(NonBlankLines(lines)))

HashCall(entry, identifiers) ==
    IF entry = "hash_identifiers" THEN hash_identifiers(identifiers)
    ELSE resolve_ids_run_dir(identifiers)

InitHash ==
    /\ h_pc = "idle"
    /\ h_entry \in {"hash_identifiers", "resolve ids"}
    /\ h_identifiers \in SeqsUpTo(HashUniverse, MaxIdentifiers)
    /\ h_result = ValueError
    /\ ResolveIdle
    /\ MergeIdle
    /\ IdleBesidesHash

\* hash_identifiers(h_identifiers)
HashIdentifiers ==
    /\ h_pc = "idle" /\ h_entry = "hash_identifiers"
    /\ h_pc' = "done"
    /\ h_result' = hash_identifiers(h_identifiers)
    /\ UNCHANGED <<h_entry, h_identifiers, besidesHash>>

\* the resolve command on a file with the lines h_identifiers
ResolveIdsRunDir ==
    /\ h_pc = "idle" /\ h_entry = "resolve ids"
    /\ h_pc' = "done"
    /\ h_result' = resolve_ids_run_dir(h_identifiers)
    /\ UNCHANGED <<h_entry, h_identifiers, besidesHash>>

\* two neighbouring identifiers are swapped, then the same call is made again
HashIdentifiersSwapped ==
    /\ h_pc = "done"
    /\ \E i \in 1..(Len(h_identifiers) - 1) :
          /\ h_identifiers[i] # h_identifiers[i + 1]
          /\ h_identifiers' = SwapAt(h_identifiers, i)
    /\ h_result' = HashCall(h_entry, h_identifiers')
    /\ UNCHANGED <<h_pc, h_entry, besidesHash>>

NextHash ==
    \/ HashIdentifiers
    \/ ResolveIdsRunDir
    \/ HashIdentifiersSwapped

HashSpec == InitHash /\ [][NextHash]_vars

\* C18: hash_identifiers returns the same hash for two lists that are permutations
\* of each other, and the resolve command derives the same output directory from a
\* file holding the same identifiers in another order.
C18_HashPermutationInvariant ==
    [][h_pc = "done" => h_result' = h_result]_vars

\* the resolve command has derived a directory from lines that are not in sorted
\* order and of which one needed trimming
C18_Witness ==
    /\ h_pc = "done" /\ h_entry = "resolve ids"
    /\ h_result.ok
    /\ Len(h_identifiers) = 3
    /\ StrLess(h_identifiers[2], h_identifiers[1])
    /\ h_identifiers[3] # StrStrip(h_identifiers[3])

\* the step is a gateway call that fails
FailedCallStep ==
    /\ Len(r_calls') = Len(r_calls) + 1
    /\ ~r_calls'[Len(r_calls')].ok

IsExternalIdCall(call) == call.gateway = "semantic-scholar"

ExternalIdCalls(calls) == SelectSeq(calls, IsExternalIdCall)

EveryExternalIdCallFailed(calls) ==
    \A i \in 1..Len(calls) : IsExternalIdCall(calls[i]) => ~calls[i].ok

ArgsOf(calls) == [i \in 1..Len(calls) |-> calls[i].arg]
ValuesOf(targets) == [i \in 1..Len(targets) |-> targets[i].value]

\* the returned records are the ones the external-ID pass started from: its calls
\* were made for the pmids and dois of exactly these records
ReturnedAsAfterArticleIdPass ==
    (ResolveReturned /\ EveryExternalIdCallFailed(r_calls)) =>
        ArgsOf(ExternalIdCalls(r_calls)) = ValuesOf(SemanticTargets(r_state))

\* C19: a gateway call that fails leaves the record list, the records and the index
\* as they were before the call; when every external-ID call fails, the records
\* resolve returns are the live records as they stood after the article-ID pass.
C19_FailedCallLeavesRecords ==
    /\ [][FailedCallStep => r_state' = r_state]_vars
    /\ []ReturnedAsAfterArticleIdPass

\* the two other gateways answered, every external-ID call failed, and the run
\* returned the record the first two passes built
C19_Witness ==
    /\ ResolveReturned
    /\ r_sources = {"pmc", "entrez"}
    /\ Len(ExternalIdCalls(r_calls)) >= 2
    /\ EveryExternalIdCallFailed(r_calls)
    /\ Len(r_errors) = Len(ExternalIdCalls(r_calls))
    /\ Len(r_state.records) = 1
    /\ \A k \in Kinds : ResultRecords[1][k] # None

(***************************************************************************)
(* fulltext.py: FullTextFetcher.fetch_from_files.  The rows of the input   *)
(* files are JSON objects; each call of a client is one step, whose        *)
(* outcome the environment chooses: the client raises, returns no text     *)
(* (None or ""), or returns a text.  f_calls lists the calls made to the   *)
(* PubGet and ACE clients, each with the position of its record in the     *)
(* result.  The metadata of a record with text comes from the Semantic     *)
(* Scholar or the Entrez client, or from neither.                          *)
(***************************************************************************)
\* the most rows the input files hold
MaxTextRows == 2

TextRow(pmid, pmcid, doi) == [pmid |-> pmid, pmcid |-> pmcid, doi |-> doi]

TextRowUniverse ==
    { TextRow(pmid, pmcid, doi) :
        pmid \in {None, <<>>, S_1}, pmcid \in {None, <<>>, S_PMC1}, doi \in {None, S_1a} }

PubgetText == <<"p">>
AceText == <<"a">>

\* the names of the text sources
SourcePubget == <<"p", "u", "b", "g", "e", "t">>
SourceAce == <<"a", "c", "e">>

\* _load_records, lines 318-321: any([pmid, pmcid, doi])
HasIdentifiers(row) == Truthy(row.pmid) \/ Truthy(row.pmcid) \/ Truthy(row.doi)

\* _load_records, line 323: unique.setdefault(key, ...)
SetDefaultRecord(unique, row) ==
    IF \E i \in 1..Len(unique) : unique[i] = row THEN unique ELSE Append(unique, row)

\* _load_records, lines 305-325, for rows that are JSON objects; acc is
\* [unique, errors]
RECURSIVE _load_records(_, _, _)
_load_records(rows, idx, acc) ==
    IF rows = <<>> THEN acc
    ELSE IF ~HasIdentifiers(Head(rows))
    THEN _load_records(Tail(rows), idx + 1,
            [acc EXCEPT !.errors = Append(@, [tag |-> "record missing identifiers", id |-> idx])])
    ELSE _load_records(Tail(rows), idx + 1,
            [acc EXCEPT !.unique = SetDefaultRecord(@, Head(rows))])

FullTextRecord(record, text, text_source, metadata) ==
    [pmid |-> record.pmid, pmcid |-> record.pmcid, doi |-> record.doi,
     text |-> text, text_source |-> text_source, metadata |-> metadata]

TextCall(client, arg, outcome) ==
    [record |-> Len(f_out) + 1, client |-> client, arg |-> arg, outcome |-> outcome]

TextError(tag, id) == [tag |-> tag, id |-> id]

InitFullText ==
    /\ f_pc = "idle"
    /\ f_rows \in SeqsUpTo(TextRowUniverse, MaxTextRows)
    /\ f_todo = <<>>
    /\ f_text = None /\ f_source = None
    /\ f_out = <<>> /\ f_errors = <<>> /\ f_sources = {} /\ f_metadata_sources = {}
    /\ f_calls = <<>>
    /\ ResolveIdle
    /\ MergeIdle
    /\ IdleBesidesFullText

\* the loop of fetch_from_files goes on to the next record, or the call returns
AfterRecord(todo) == IF todo = <<>> THEN "done" ELSE "pubget"

\* fetch_from_files, lines 239-251: the records are loaded
FetchFromFiles ==
    /\ f_pc = "idle"
    /\ f_todo' = _load_records(f_rows, 1, [unique |-> <<>>, errors |-> <<>>]).unique
    /\ f_errors' = _load_records(f_rows, 1, [unique |-> <<>>, errors |-> <<>>]).errors
    /\ f_pc' = AfterRecord(f_todo')
    /\ UNCHANGED <<f_rows, f_text, f_source, f_out, f_sources, f_metadata_sources, f_calls,
                   besidesFullText>>

\* _fetch_text, line 331: the record has no pmcid
PubgetSkipped ==
    /\ f_pc = "pubget"
    /\ ~Truthy(Head(f_todo).pmcid)
    /\ f_pc' = "ace"
    /\ UNCHANGED <<f_rows, f_todo, f_text, f_source, f_out, f_errors, f_sources,
                   f_metadata_sources, f_calls, besidesFullText>>

\* the exception of PubGet ends the fetch of the record, as the exception of ACE does
PubgetRaisesAndGivesUp ==
    /\ f_pc = "pubget"
    /\ Truthy(Head(f_todo).pmcid)
    /\ f_calls' = Append(f_calls, TextCall("pubget", Head(f_todo).pmcid, "raised"))
    /\ f_errors' = Append(f_errors, TextError("PubGet failed", Head(f_todo).pmcid))
    /\ f_out' = Append(f_out, FullTextRecord(Head(f_todo), None, None, None))
    /\ f_todo' = Tail(f_todo)
    /\ f_pc' = AfterRecord(f_todo')
    /\ UNCHANGED <<f_rows, f_text, f_source, f_sources, f_metadata_sources, besidesFullText>>

\* lines 332-335: self._pubget.fetch_text(pmcid) raises
PubgetRaises ==
    /\ f_pc = "pubget"
    /\ Truthy(Head(f_todo).pmcid)
    /\ f_calls' = Append(f_calls, TextCall("pubget", Head(f_todo).pmcid, "raised"))
    /\ f_errors' = Append(f_errors, TextError("PubGet failed", Head(f_todo).pmcid))
    /\ f_pc' = "ace"
    /\ UNCHANGED <<f_rows, f_todo, f_text, f_source, f_out, f_sources, f_metadata_sources,
                   besidesFullText>>

\* lines 336-339: it returns None or ""
PubgetReturnsNothing ==
    /\ f_pc = "pubget"
    /\ Truthy(Head(f_todo).pmcid)
    /\ f_calls' = Append(f_calls, TextCall("pubget", Head(f_todo).pmcid, "nothing"))
    /\ f_errors' = Append(f_errors, TextError("PubGet returned no text", Head(f_todo).pmcid))
    /\ f_pc' = "ace"
    /\ UNCHANGED <<f_rows, f_todo, f_text, f_source, f_out, f_sources, f_metadata_sources,
                   besidesFullText>>

\* lines 336-338: it returns a text, and _fetch_text returns (text, "pubget")
PubgetReturnsText ==
    /\ f_pc = "pubget"
    /\ Truthy(Head(f_todo).pmcid)
    /\ f_calls' = Append(f_calls, TextCall("pubget", Head(f_todo).pmcid, "text"))
    /\ f_text' = PubgetText /\ f_source' = SourcePubget
    /\ f_pc' = "metadata"
    /\ UNCHANGED <<f_rows, f_todo, f_out, f_errors, f_sources, f_metadata_sources,
                   besidesFullText>>

\* _fetch_text returned (None, None): fetch_from_files, lines 257-270, with no
\* text, no metadata and no source
NoText ==
    /\ f_out' = Append(f_out, FullTextRecord(Head(f_todo), None, None, None))
    /\ f_todo' = Tail(f_todo)
    /\ f_pc' = AfterRecord(f_todo')
    /\ UNCHANGED <<f_rows, f_text, f_source, f_sources, f_metadata_sources, besidesFullText>>

\* line 341 and line 351: the record has no pmid
AceSkipped ==
    /\ f_pc = "ace"
    /\ ~Truthy(Head(f_todo).pmid)
    /\ NoText
    /\ UNCHANGED <<f_errors, f_calls>>

\* lines 342-346: self._ace.fetch_text(pmid) raises
AceRaises ==
    /\ f_pc = "ace"
    /\ Truthy(Head(f_todo).pmid)
    /\ f_calls' = Append(f_calls, TextCall("ace", Head(f_todo).pmid, "raised"))
    /\ f_errors' = Append(f_errors, TextError("ACE failed for PMID", Head(f_todo).pmid))
    /\ NoText

\* lines 347-351: it returns None or ""
AceReturnsNothing ==
    /\ f_pc = "ace"
    /\ Truthy(Head(f_todo).pmid)
    /\ f_calls' = Append(f_calls, TextCall("ace", Head(f_todo).pmid, "nothing"))
    /\ f_errors' = Append(f_errors, TextError("ACE returned no text for PMID", Head(f_todo).pmid))
    /\ NoText

\* lines 347-348: it returns a text, and _fetch_text returns (text, "ace")
AceReturnsText ==
    /\ f_pc = "ace"
    /\ Truthy(Head(f_todo).pmid)
    /\ f_calls' = Append(f_calls, TextCall("ace", Head(f_todo).pmid, "text"))
    /\ f_text' = AceText /\ f_source' = SourceAce
    /\ f_pc' = "metadata"
    /\ UNCHANGED <<f_rows, f_todo, f_out, f_errors, f_sources, f_metadata_sources,
                   besidesFullText>>

\* _fetch_metadata, lines 353-374: the sources the metadata of the record can come
\* from; "none" when every client asked raised or returned nothing
MetadataOutcomes(record) ==
    {"none"}
    \cup (IF Truthy(record.pmid) \/ Truthy(record.doi) THEN {"semantic-scholar"} ELSE {})
    \cup (IF Truthy(record.pmid) THEN {"entrez"} ELSE {})

\* fetch_from_files, lines 257-270, for a record with text
FetchMetadata ==
    /\ f_pc = "metadata"
    /\ \E source \in MetadataOutcomes(Head(f_todo)) :
          /\ f_out' = Append(f_out,
                FullTextRecord(Head(f_todo), f_text, f_source,
                               IF source = "none" THEN None ELSE [source |-> source]))
          /\ f_metadata_sources' = IF source = "none" THEN f_metadata_sources
                                   ELSE f_metadata_sources \cup {source}
    /\ f_sources' = f_sources \cup {f_source}
    /\ f_text' = None /\ f_source' = None
    /\ f_todo' = Tail(f_todo)
    /\ f_pc' = AfterRecord(f_todo')
    /\ UNCHANGED <<f_rows, f_errors, f_calls, besidesFullText>>

NextFullText ==
    \/ FetchFromFiles
    \/ PubgetSkipped
    \/ PubgetRaises
    \/ PubgetReturnsNothing
    \/ PubgetReturnsText
    \/ AceSkipped
    \/ AceRaises
    \/ AceReturnsNothing
    \/ AceReturnsText
    \/ FetchMetadata

FullTextSpec == InitFullText /\ [][NextFullText]_vars

\* the calls made for the record at position i of the result, in call order
CallsFor(i) == SelectSeq(f_calls, LAMBDA c : c.record = i)

\* the outcome of the only call to the client among the calls, "not tried" if none
OutcomeOf(calls, client) ==
    IF \E k \in 1..Len(calls) : calls[k].client = client
    THEN calls[CHOOSE k \in 1..Len(calls) : calls[k].client = client].outcome
    ELSE "not tried"

CallsTo(calls, client) == {k \in 1..Len(calls) : calls[k].client = client}

FetchedInOrder(record, calls) ==
    /\ Cardinality(CallsTo(calls, "pubget")) <= 1
    /\ Cardinality(CallsTo(calls, "ace")) <= 1
    /\ CallsTo(calls, "pubget") # {} => calls[1].client = "pubget"
    /\ CallsTo(calls, "pubget") # {} <=> Truthy(record.pmcid)
    /\ CallsTo(calls, "ace") # {} <=>
          /\ Truthy(record.pmid)
          /\ OutcomeOf(calls, "pubget") \in {"not tried", "nothing", "raised"}
    /\ record.text_source =
          IF OutcomeOf(calls, "pubget") = "text" THEN SourcePubget
          ELSE IF OutcomeOf(calls, "ace") = "text" THEN SourceAce
          ELSE None
    /\ record.text_source = None => record.text = None
    /\ record.text_source = SourcePubget => record.text = PubgetText
    /\ record.text_source = SourceAce => record.text = AceText

\* C20: for each record FullTextFetcher tries PubGet first, exactly when the record
\* has a pmcid, and tries ACE exactly when the record has a pmid and PubGet was not
\* tried, returned no text or raised; text_source is 'pubget' when PubGet returned
\* text, otherwise 'ace' when ACE returned text, otherwise null with a null text.
C20_PubgetThenAce ==
    \A i \in 1..Len(f_out) : FetchedInOrder(f_out[i], CallsFor(i))

\* one run in which PubGet raised for a record and ACE then returned its text, and
\* PubGet returned the text of another record, for which ACE was not tried
C20_Witness ==
    /\ f_pc = "done"
    /\ Len(f_out) = 2
    /\ \E i \in 1..2 :
          /\ OutcomeOf(CallsFor(i), "pubget") = "raised"
          /\ OutcomeOf(CallsFor(i), "ace") = "text"
          /\ f_out[i].text_source = SourceAce
    /\ \E i \in 1..2 :
          /\ Truthy(f_out[i].pmid)
          /\ OutcomeOf(CallsFor(i), "pubget") = "text"
          /\ OutcomeOf(CallsFor(i), "ace") = "not tried"
          /\ f_out[i].text_source = SourcePubget

(***************************************************************************)
(* PubMedSearchService.search_pmids (services/pubmed.py).  The service     *)
(* sends one request per page; the server's answer to each request is      *)
(* drawn from ResponseUniverse.  Values of the JSON body are kept as the   *)
(* text of their JSON token.                                               *)
(***************************************************************************)

\* the most requests one call sends
MaxPages == 3

\* an element of "idlist": a JSON string or a JSON number, by its text
JsonString(text) == [json |-> "string", text |-> text]
JsonNumber(text) == [json |-> "number", text |-> text]

\* the "idlist" member of "esearchresult": absent, a value that is not
\* iterable, or a list
NoIdList == [given |-> FALSE, iterable |-> TRUE, ids |-> <<>>]
ScalarIdList == [given |-> TRUE, iterable |-> FALSE, ids |-> <<>>]
IdList(ids) == [given |-> TRUE, iterable |-> TRUE, ids |-> ids]

\* the "count" member of "esearchresult": absent, or the text of its value
\* (None for a JSON null)
NoCountMember == [given |-> FALSE, text |-> <<>>]
CountMember(text) == [given |-> TRUE, text |-> text]

Response(status, is_dict, idlist, count) ==
    [status |-> status, esearch_is_dict |-> is_dict, idlist |-> idlist, count |-> count]

IdLists ==
    { NoIdList, IdList(<<>>),
      IdList(<<JsonString(S_1)>>),
      IdList(<<JsonNumber(S_2)>>),
      IdList(<<JsonString(S_1), JsonString(S_2)>>),
      IdList(<<JsonString(S_2), JsonNumber(S_1)>>) }

CountMembers ==
    { NoCountMember, CountMember(None), CountMember(<<"x">>), CountMember(<<"0">>),
      CountMember(<<"2">>), CountMember(<<" ", "3">>), CountMember(<<"1", "0">>) }

ResponseUniverse ==
    { Response("http_error", FALSE, NoIdList, NoCountMember),
      Response("invalid_json", FALSE, NoIdList, NoCountMember),
      Response("ok", FALSE, NoIdList, NoCountMember),
      Response("ok", TRUE, ScalarIdList, CountMember(<<"2">>)) }
    \cup { Response("ok", TRUE, idlist, count) : idlist \in IdLists, count \in CountMembers }

\* str(n) for a non-negative int
RECURSIVE str_of_int(_)
str_of_int(n) ==
    IF n < 10 THEN <<CharOfOrd(48 + n)>>
    ELSE str_of_int(n \div 10) \o <<CharOfOrd(48 + (n % 10))>>

RECURSIVE DecimalValue(_, _)
DecimalValue(digits, acc) ==
    IF digits = <<>> THEN acc
    ELSE DecimalValue(Tail(digits), 10 * acc + (Ord[Head(digits)] - 48))

\* int(text) for the text of an unsigned decimal, with the whitespace int() allows
\* around it; TypeError for None and ValueError for other text, which line 99
\* catches alike
int_stripped(stripped) ==
    IF stripped # <<>> /\ StrIsDigit(stripped) THEN Ok(DecimalValue(stripped, 0))
    ELSE [ok |-> FALSE, value |-> 0]

int(text) ==
    IF text = None THEN [ok |-> FALSE, value |-> 0] ELSE int_stripped(StrStrip(text))

\* line 93: batch = [str(identifier) for identifier in idlist]
str(identifier) == identifier.text

batch_of(idlist) == [i \in 1..Len(idlist.ids) |-> str(idlist.ids[i])]

\* line 98: int(esearch.get("count", len(pmids)))
total_count_of(count, pmids) ==
    IF count.given THEN int(count.text) ELSE Ok(Len(pmids))

\* lines 96-100: total_count is set by the first response only
total_count_after(total_count, count, pmids) ==
    IF total_count.is_none
        THEN [is_none |-> FALSE, value |-> total_count_of(count, pmids).value]
        ELSE total_count

\* line 105 with every page counted as one, whatever it holds
retstart_after_page_number(retstart, batch) == retstart + 1

\* line 105: retstart += len(batch)
retstart_after(retstart, batch) == retstart + Len(batch)

\* lines 110-112: the client made by _get_client is closed, a supplied one is not
closes_after(supplied, closes) == IF supplied THEN closes ELSE closes + 1

InitSearch ==
    /\ s_pc = "idle"
    /\ s_supplied \in BOOLEAN
    /\ s_retstart = 0 /\ s_total_count = NoCount
    /\ s_pmids = <<>> /\ s_requests = <<>> /\ s_responses = <<>>
    /\ s_result = <<>> /\ s_closes = 0
    /\ ResolveIdle
    /\ MergeIdle
    /\ IdleBesidesSearch

\* lines 70-79: the locals are set and the first request is sent
SearchPmids ==
    /\ s_pc = "idle"
    /\ s_pc' = "requested"
    /\ s_retstart' = 0 /\ s_total_count' = NoCount /\ s_pmids' = <<>>
    /\ s_requests' = <<str_of_int(0)>>
    /\ UNCHANGED <<s_supplied, s_responses, s_result, s_closes, besidesSearch>>

\* PubMedError leaves search_pmids through the finally clause
SearchRaises(response) ==
    /\ s_pc' = "raised"
    /\ s_responses' = Append(s_responses, response)
    /\ s_closes' = closes_after(s_supplied, s_closes)
    /\ UNCHANGED <<s_supplied, s_retstart, s_total_count, s_pmids, s_requests, s_result,
                   besidesSearch>>

\* lines 79-83: the request fails or its body is not JSON
RequestFails ==
    /\ s_pc = "requested"
    /\ \E response \in ResponseUniverse :
        /\ response.status # "ok"
        /\ SearchRaises(response)

\* lines 85-91: the body has not the expected structure
ResponseMalformed ==
    /\ s_pc = "requested"
    /\ \E response \in ResponseUniverse :
        /\ response.status = "ok"
        /\ ~response.esearch_is_dict \/ ~response.idlist.iterable
        /\ SearchRaises(response)

WellFormed(response) ==
    response.status = "ok" /\ response.esearch_is_dict /\ response.idlist.iterable

\* lines 93-100: the first response holds a count that int() rejects
CountInvalid ==
    /\ s_pc = "requested"
    /\ s_total_count.is_none
    /\ \E response \in ResponseUniverse :
        /\ WellFormed(response)
        /\ ~total_count_of(response.count, s_pmids \o batch_of(response.idlist)).ok
        /\ s_pc' = "raised"
        /\ s_responses' = Append(s_responses, response)
        /\ s_pmids' = s_pmids \o batch_of(response.idlist)
        /\ s_closes' = closes_after(s_supplied, s_closes)
        /\ UNCHANGED <<s_supplied, s_retstart, s_total_count, s_requests, s_result,
                       besidesSearch>>

\* a response that search_pmids reads to the end of the loop body
Page(response) ==
    /\ WellFormed(response)
    /\ s_total_count.is_none =>
          total_count_of(response.count, s_pmids \o batch_of(response.idlist)).ok

\* lines 109-112: return pmids
SearchReturns(response, pmids, total_count, retstart) ==
    /\ s_pc' = "returned"
    /\ s_responses' = Append(s_responses, response)
    /\ s_pmids' = pmids
    /\ s_total_count' = total_count
    /\ s_retstart' = retstart
    /\ s_result' = pmids
    /\ s_closes' = closes_after(s_supplied, s_closes)
    /\ UNCHANGED <<s_supplied, s_requests, besidesSearch>>

\* lines 93-103: the page is empty
PageEmpty ==
    /\ s_pc = "requested"
    /\ \E response \in ResponseUniverse :
        /\ Page(response)
        /\ batch_of(response.idlist) = <<>>
        /\ SearchReturns(response, s_pmids,
                         total_count_after(s_total_count, response.count, s_pmids),
                         s_retstart)

\* lines 93-107: the page brings retstart up to total_count
PageLast(response, batch, total_count, retstart) ==
    /\ batch # <<>>
    /\ retstart >= total_count.value
    /\ SearchReturns(response, s_pmids \o batch, total_count, retstart)

PageReachesCount ==
    /\ s_pc = "requested"
    /\ \E response \in ResponseUniverse :
        /\ Page(response)
        /\ PageLast(response, batch_of(response.idlist),
                    total_count_after(s_total_count, response.count,
                                      s_pmids \o batch_of(response.idlist)),
                    retstart_after(s_retstart, batch_of(response.idlist)))

\* lines 93-107 and 77-79: the loop goes round and the next request is sent
PageMore(response, batch, total_count, retstart) ==
    /\ batch # <<>>
    /\ retstart < total_count.value
    /\ s_pc' = "requested"
    /\ s_responses' = Append(s_responses, response)
    /\ s_pmids' = s_pmids \o batch
    /\ s_total_count' = total_count
    /\ s_retstart' = retstart
    /\ s_requests' = Append(s_requests, str_of_int(retstart))
    /\ UNCHANGED <<s_supplied, s_result, s_closes, besidesSearch>>

PageFollowed ==
    /\ s_pc = "requested"
    /\ Len(s_requests) < MaxPages
    /\ \E response \in ResponseUniverse :
        /\ Page(response)
        /\ PageMore(response, batch_of(response.idlist),
                    total_count_after(s_total_count, response.count,
                                      s_pmids \o batch_of(response.idlist)),
                    retstart_after(s_retstart, batch_of(response.idlist)))

NextSearch ==
    \/ SearchPmids
    \/ RequestFails
    \/ ResponseMalformed
    \/ CountInvalid
    \/ PageEmpty
    \/ PageReachesCount
    \/ PageFollowed

SearchSpec == InitSearch /\ [][NextSearch]_vars

\* the ids of the first k responses, one page after the other
RECURSIVE IdsReceived(_, _)
IdsReceived(responses, k) ==
    IF k = 0 THEN <<>>
    ELSE IdsReceived(responses, k - 1)
            \o [i \in 1..Len(responses[k].idlist.ids) |-> responses[k].idlist.ids[i].text]

\* the first response reports a count, and the ids of the first k responses
\* reach it
CountReached(responses, k) ==
    /\ responses[1].count.given
    /\ Len(IdsReceived(responses, k)) >= int(responses[1].count.text).value

\* C21: every request asks for the page that starts after the ids received so
\* far; a request is followed by another only if its page was not empty and the
\* ids received had not reached the count of the first response; the list
\* returned is the ids of all pages in the order of the requests.
C21_Paging ==
    /\ \A k \in 1..Len(s_requests) :
          s_requests[k] = str_of_int(Len(IdsReceived(s_responses, k - 1)))
    /\ \A k \in 1..(Len(s_requests) - 1) :
          /\ s_responses[k].idlist.ids # <<>>
          /\ ~CountReached(s_responses, k)
    /\ s_pc = "returned" =>
          /\ Len(s_responses) = Len(s_requests)
          /\ s_result = IdsReceived(s_responses, Len(s_responses))

\* three pages were fetched, the count of the first response was reached by
\* the third, and the ids of every page were returned
C21_Witness ==
    /\ s_pc = "returned"
    /\ Len(s_requests) = 3
    /\ s_requests[3] = <<"2">>
    /\ CountReached(s_responses, 3)
    /\ Len(s_result) = 3
    /\ s_result[1] # s_result[2]

(***************************************************************************)
(* The index and the record list of a resolve run.                         *)
(***************************************************************************)
\* the identities of the records of self.records
LiveRecords(st) == {st.records[i] : i \in 1..Len(st.records)}

\* C22: every key of the resolution index maps to a record that is in the
\* live record list; no key maps to a record that a merge absorbed.
C22_IndexConsistent ==
    \A key \in DOMAIN r_state.index : r_state.index[key] \in LiveRecords(r_state)

(***************************************************************************)
(* The link calls of a resolve run.  A gateway item is an ensure_record    *)
(* followed by one link for every identifier of the payload; a property of *)
(* link is stated of every link of every item that the gateways may hand   *)
(* to the state a run is in.                                               *)
(***************************************************************************)
\* the kinds resolve links from the payload of an item, in the order of the code
LinkedKinds(pass) ==
    IF pass = "pmc_items" THEN <<"pmid", "doi">>
    ELSE IF pass = "entrez_items" THEN <<"pmcid", "doi">>
    ELSE <<"pmid", "pmcid", "doi">>

\* link(record, kind, value) finds the key under another record and merges
LinkMerges(st, record, kind, r) ==
    /\ r.ok
    /\ DictGet(st.index, Ident(kind, r.value)) # 0
    /\ DictGet(st.index, Ident(kind, r.value)) # record

\* every field that survivor held in st holds the same value in after
FieldsKept(st, survivor, after) ==
    \A attr \in Kinds :
        st.heap[survivor][attr] # None => after.heap[survivor][attr] = st.heap[survivor][attr]

\* the link of st.cur to (kind, value), if it merges and returns, keeps the
\* fields of the record it returns
LinkKeepsFields(st, kind, r, after) ==
    (LinkMerges(st, st.cur, kind, r) /\ ~after.raised) => FieldsKept(st, after.cur, after)

\* P(st, kind, r, after) holds of every link of the chain that starts in st
RECURSIVE EveryLink(_, _, _, _)
EveryLink(P(_, _, _, _), st, kinds, payload) ==
    IF kinds = <<>> \/ st.raised THEN TRUE
    ELSE IF ~Truthy(payload[Head(kinds)]) THEN EveryLink(P, st, Tail(kinds), payload)
    ELSE /\ P(st, Head(kinds), _normalize_value(Head(kinds), payload[Head(kinds)]),
              link(st, st.cur, Head(kinds), payload[Head(kinds)]))
         /\ EveryLink(P, link(st, st.cur, Head(kinds), payload[Head(kinds)]),
                      Tail(kinds), payload)

\* P holds of every link of every item that may come next
EveryNextLink(P(_, _, _, _)) ==
    /\ r_pc = "pmc_items" =>
          \A pmcid \in PmcKeys : \A payload \in PmcPayloads(pmcid) :
              EveryLink(P, ensure_record(r_state, "pmcid", pmcid), LinkedKinds(r_pc), payload)
    /\ r_pc = "entrez_items" =>
          \A pmid \in EntrezKeys : \A payload \in EntrezPayloads(pmid) :
              EveryLink(P, ensure_record(r_state, "pmid", pmid), LinkedKinds(r_pc), payload)
    /\ (r_pc = "semantic" /\ r_targets # <<>>) =>
          \A data \in SemanticPayloads(Head(r_targets)) :
              EveryLink(P, ensure_record(r_state, Head(r_targets).kind, Head(r_targets).value),
                        LinkedKinds(r_pc), data)

\* C23: when link merges two records, every field of the record it returns that
\* was non-null before the call has the same value after it.
C23_MergeKeepsFields == EveryNextLink(LinkKeepsFields)

(***************************************************************************)
(* The order of the gateway calls of a resolve run.                        *)
(***************************************************************************)
\* the positions of the calls to gateway in calls
CallPositions(calls, gateway) == {i \in 1..Len(calls) : calls[i].gateway = gateway}

\* the pass a gateway belongs to
PassOf(gateway) ==
    IF gateway = "pmc" THEN 1 ELSE IF gateway = "entrez" THEN 2 ELSE 3

\* the calls are in the order of the passes, with at most one registry call and
\* at most one article-ID call, and a registry call only for an input with a PMCID
CallsInPassOrder ==
    /\ \A i, j \in 1..Len(r_calls) :
          i < j => PassOf(r_calls[i].gateway) <= PassOf(r_calls[j].gateway)
    /\ Cardinality(CallPositions(r_calls, "pmc")) <= 1
    /\ Cardinality(CallPositions(r_calls, "entrez")) <= 1
    /\ CallPositions(r_calls, "pmc") # {} =>
          \E i \in 1..Len(r_identifiers) : r_identifiers[i].kind = "pmcid"

\* the step makes a call to gateway
CallStep(gateway) ==
    /\ Len(r_calls') = Len(r_calls) + 1
    /\ r_calls'[Len(r_calls')].gateway = gateway

\* the step works on the records
RecordsStep == r_state' # r_state

\* some record of the list holds a PMID
SomeLivePmid == \E i \in 1..Len(r_state.records) : r_state.heap[r_state.records[i]].pmid # None

\* a step that changes the records after the article-ID call belongs to the
\* article-ID pass or comes after it, and likewise after the first external-ID call
PassesDoNotOverlap ==
    /\ (RecordsStep /\ CallPositions(r_calls, "entrez") # {}) =>
          r_pc \in {"entrez_items", "semantic"}
    /\ (RecordsStep /\ CallPositions(r_calls, "semantic-scholar") # {}) => r_pc = "semantic"
    /\ CallStep("entrez") => (r_pc = "entrez" /\ SomeLivePmid)
    /\ CallStep("semantic-scholar") => r_pc = "semantic"

\* C24: the three passes follow one another: at most one registry call, only
\* for an input that holds a PMCID; at most one article-ID call, only after the
\* registry pass and only when a live record holds a PMID; every external-ID
\* call after the article-ID pass.
C24_StraightLinePasses == []CallsInPassOrder /\ [][PassesDoNotOverlap]_vars

\* a run that called the registry, the article-ID gateway and twice the
\* external-ID gateway, and returned
C24_Witness ==
    /\ r_pc = "done"
    /\ CallPositions(r_calls, "pmc") # {}
    /\ CallPositions(r_calls, "entrez") # {}
    /\ Cardinality(CallPositions(r_calls, "semantic-scholar")) >= 2

(***************************************************************************)
(* The external-ID pass.                                                   *)
(***************************************************************************)
\* the (kind, value) pairs of the pmid and doi fields of the live records
LivePairs(st) ==
    {pair \in {Ident(kind, st.heap[st.records[i]][kind]) :
                 kind \in {"pmid", "doi"}, i \in 1..Len(st.records)} :
        pair.value # None}

\* strictly ascending as Python orders (kind, value) tuples
IsAscending(pairs) == \A i, j \in 1..Len(pairs) : i < j => TargetLess(pairs[i], pairs[j])

\* the pass starts from the pairs of the live records, sorted and without duplicates
TargetsFromLiveRecords ==
    r_pc = "targets" =>
        /\ IsAscending(r_targets')
        /\ {r_targets'[i] : i \in 1..Len(r_targets')} = LivePairs(r_state)

\* while pairs are left, a step of the pass is one call for the first of them,
\* whatever the call does
OneCallPerTarget ==
    (r_pc = "semantic" /\ r_targets # <<>>) =>
        /\ r_targets' = Tail(r_targets)
        /\ Len(r_calls') = Len(r_calls) + 1
        /\ r_calls'[Len(r_calls')].gateway = "semantic-scholar"
        /\ r_calls'[Len(r_calls')].arg = Head(r_targets).value

\* the external-ID gateway is not called anywhere else
NoOtherExternalIdCall ==
    Len(ExternalIdCalls(r_calls')) # Len(ExternalIdCalls(r_calls)) =>
        (r_pc = "semantic" /\ r_targets # <<>>)

\* C25: the external-ID gateway is called once for every distinct pair of the
\* pmid and doi fields of the live records as they stand after the article-ID
\* pass, in ascending order, whether or not earlier calls failed, and for
\* nothing else: no PMCID, no identifier found during the pass.
C25_ExternalIdCalls ==
    /\ [][TargetsFromLiveRecords /\ OneCallPerTarget /\ NoOtherExternalIdCall]_vars
    /\ [](ResolveReturned => r_targets = <<>>)

\* a returned run in which an external-ID call failed, a later one answered,
\* and the result holds a DOI and a PMCID for which no call was made
C25_Witness ==
    /\ ResolveReturned
    /\ \E i, j \in CallPositions(r_calls, "semantic-scholar") :
          i < j /\ ~r_calls[i].ok /\ r_calls[j].ok
    /\ \E v \in LiveValues(r_state, "doi") :
          \A i \in CallPositions(r_calls, "semantic-scholar") : r_calls[i].arg # v
    /\ LiveValues(r_state, "pmcid") # {}

(***************************************************************************)
(* The records a resolve run returns.                                      *)
(***************************************************************************)
\* C26: whatever the gateways answer, resolve returns at least one record for
\* an input that is not empty.
C26_SomeRecordReturned ==
    (ResolveReturned /\ r_identifiers # <<>>) => Len(r_state.records) >= 1

\* some record of the result holds value in the field of kind
HeldByResult(kind, value) ==
    \E i \in 1..Len(ResultRecords) : ResultRecords[i][kind] = value

\* C27: every identifier of the input is held, in the field of its kind, by a
\* record of the result, whatever the gateways return.
C27_InputSurvives ==
    ResolveReturned =>
        \A i \in 1..Len(r_identifiers) :
            HeldByResult(r_identifiers[i].kind, r_identifiers[i].value)

\* the positions of the result's records that hold value in the field of kind
HoldersOf(kind, value) == {i \in 1..Len(ResultRecords) : ResultRecords[i][kind] = value}

\* C28: no two records of the list hold the same (kind, value).
C28_NoSharedIdentifier ==
    \A kind \in Kinds : \A i \in 1..Len(ResultRecords) :
        ResultRecords[i][kind] # None =>
            Cardinality(HoldersOf(kind, ResultRecords[i][kind])) = 1

\* the distinct (kind, value) pairs of the input
InputPairs == {r_identifiers[i] : i \in 1..Len(r_identifiers)}

\* C29: resolve returns no more records than the input holds distinct
\* (kind, value) pairs; a gateway response never adds a record.
C29_NoRecordAdded ==
    ResolveReturned => Len(r_state.records) <= Cardinality(InputPairs)

(***************************************************************************)
(* resolve against gateways whose responses are functions of the request.  *)
(* The registry and the article-ID gateway follow one policy each: they    *)
(* answer a key with the identifiers of the publication the key belongs to *)
(* ("honest"), of the other publication ("other"), or of the first         *)
(* publication whatever the key ("first"); they return an empty answer     *)
(* ("nothing"); or they raise their source error ("raises").  The          *)
(* external-ID gateway follows a policy too, or answers from a table that  *)
(* gives every key its own payload, which may hold one identifier only and *)
(* may spell it in a way the normalizer changes.  The batch is resolved,   *)
(* then two neighbours of the batch are swapped and it is resolved again,  *)
(* and so on.                                                              *)
(***************************************************************************)
\* the most strings of a batch that is resolved in several orders, against
\* gateways that follow policies
MaxOrdered == 3
\* the most strings of such a batch against an external-ID gateway that
\* answers from a table
MaxOrderedTable == 4

OrderUniverse == { S_1, <<"p", "m", "c", "1">>, S_PMC2, <<"1", "/", "A">>, S_1b }

\* "1/a", and DOIs written with a doubled prefix: normalize_identifier gives
\* "doi: 1/a" for "doi:doi: 1/a", and ensure_record stores " 1/a"
S_doi_1a == <<"d", "o", "i", ":", " ", "1", "/", "a">>
S_doi_0c == <<"d", "o", "i", ":", " ", "0", "/", "c">>
S_doi_0d == <<"d", "o", "i", ":", " ", "0", "/", "d">>
OrderUniverseTable ==
    { S_1a, <<"d", "o", "i", ":">> \o S_doi_1a, <<"d", "o", "i", ":">> \o S_doi_0c,
      <<"d", "o", "i", ":">> \o S_doi_0d }

\* the values the external-ID gateway is asked about when the batch is drawn
\* from OrderUniverseTable: the DOIs as the records hold them
TableKeys == << <<" ", "0", "/", "c">>, <<" ", "0", "/", "d">>, <<" ", "1", "/", "a">>, S_1a >>

\* what the table may hold for a key
TableAnswers ==
    { Payload(None, None, S_doi_1a), Payload(None, None, S_1a),
      Payload(None, None, S_doi_0c), Payload(S_2, None, None) }

\* the gateways a batch of OrderUniverse is resolved against
PolicyGateways ==
    [pmc : Policies, entrez : Policies, semantic : Policies, table : {<<>>}]

\* the gateways a batch of OrderUniverseTable is resolved against
TableGateways ==
    [pmc : {"honest"}, entrez : {"honest"}, semantic : {"nothing"},
     table : [1..Len(TableKeys) -> TableAnswers]]

OtherPublication(p) == CHOOSE q \in Publications : q # p

\* the publication whose identifiers the gateway puts in its answer for a key
AnswerFor(policy, kind, value) ==
    IF policy = "honest" THEN PublicationOf(kind, value)
    ELSE IF policy = "other" THEN OtherPublication(PublicationOf(kind, value))
    ELSE PublicationOf("pmid", S_1)

Answers(policy) == policy \in {"honest", "other", "first"}

\* the table has an answer for the value
InTable(table, value) == \E i \in DOMAIN table : TableKeys[i] = value

TableAnswer(table, value) == table[CHOOSE i \in DOMAIN table : TableKeys[i] = value]

\* fetch_external_ids(value) returns data that is not empty
SemanticAnswers(policies, value) ==
    InTable(policies.table, value) \/ Answers(policies.semantic)

\* the data fetch_external_ids(value) returns
SemanticAnswer(policies, kind, value) ==
    IF InTable(policies.table, value) THEN TableAnswer(policies.table, value)
    ELSE AnswerFor(policies.semantic, kind, value)

\* lines 226-233: for pmcid, payload in conversions.items()
RECURSIVE PmcItems(_, _, _)
PmcItems(policy, st, pmcids) ==
    IF pmcids = <<>> \/ st.raised THEN st
    ELSE PmcItems(policy,
                  PmcItem(st, Head(pmcids),
                          Payload(AnswerFor(policy, "pmcid", Head(pmcids)).pmid, None,
                                  AnswerFor(policy, "pmcid", Head(pmcids)).doi)),
                  Tail(pmcids))

\* lines 220-235: the registry pass
PmcPass(policy, st, pmcids) ==
    IF st.raised \/ pmcids = <<>> \/ ~Answers(policy) THEN st
    ELSE PmcItems(policy, st, pmcids)

\* lines 247-254: for pmid, payload in summaries.items()
RECURSIVE EntrezItems(_, _, _)
EntrezItems(policy, st, pmids) ==
    IF pmids = <<>> \/ st.raised THEN st
    ELSE EntrezItems(policy,
                     EntrezItem(st, Head(pmids),
                                Payload(None, AnswerFor(policy, "pmid", Head(pmids)).pmcid,
                                        AnswerFor(policy, "pmid", Head(pmids)).doi)),
                     Tail(pmids))

\* lines 237-256: the article-ID pass
EntrezPass(policy, st, pmids) ==
    IF st.raised \/ pmids = <<>> \/ ~Answers(policy) THEN st
    ELSE EntrezItems(policy, st, pmids)

\* lines 269-289: for kind, value in semantic_targets
RECURSIVE SemanticPass(_, _, _)
SemanticPass(policies, st, targets) ==
    IF st.raised \/ targets = <<>> THEN st
    ELSE IF ~SemanticAnswers(policies, Head(targets).value)
         THEN SemanticPass(policies, st, Tail(targets))
    ELSE SemanticPass(policies,
                      SemanticData(st, Head(targets).kind, Head(targets).value,
                                   SemanticAnswer(policies, Head(targets).kind,
                                                  Head(targets).value)),
                      Tail(targets))

\* lines 258-289: the external-ID pass, from the state the article-ID pass leaves
SemanticPassOf(policies, st) == SemanticPass(policies, st, SemanticTargets(st))

\* lines 237-289: the article-ID pass and the external-ID pass, from the state
\* the registry pass leaves
AfterPmcPass(policies, st) ==
    SemanticPassOf(policies, EntrezPass(policies.entrez, st, PmidsOf(st)))

\* lines 212-291: resolve(identifiers); the state it ends in
resolve(policies, identifiers) ==
    AfterPmcPass(policies,
                 PmcPass(policies.pmc, SeedRecords(NewResolutionState, identifiers),
                         PmcidsOf(identifiers)))

\* ResolutionResult.records of the state, or the ValueError
ResultOf(st) ==
    IF st.raised THEN [raised |-> TRUE, records |-> <<>>]
    ELSE [raised |-> FALSE,
          records |-> [i \in 1..Len(st.records) |-> st.heap[st.records[i]]]]

\* resolve_from_strings(strings), r what normalizing the strings gave
resolve_normalized(policies, r) ==
    IF ~r.ok THEN [raised |-> TRUE, records |-> <<>>]
    ELSE ResultOf(resolve(policies, r.value))

\* the sequences of up to n different elements of S
Arrangements(S, n) ==
    {q \in SeqsUpTo(S, n) : \A i, j \in 1..Len(q) : i # j => q[i] # q[j]}

\* how many elements of records equal record
CountOf(records, record) == Cardinality({i \in 1..Len(records) : records[i] = record})

\* the records of a list with the number of times the list holds each
MultisetOf(records) ==
    [record \in {records[i] : i \in 1..Len(records)} |-> CountOf(records, record)]

InitOrder ==
    /\ o_pc = "idle"
    /\ \/ /\ o_strings \in SeqsUpTo(OrderUniverse, MaxOrdered)
          /\ o_policies \in PolicyGateways
       \/ /\ o_strings \in Arrangements(OrderUniverseTable, MaxOrderedTable)
          /\ o_policies \in TableGateways
    /\ o_first = NoResult /\ o_result = NoResult
    /\ ResolveIdle
    /\ MergeIdle
    /\ IdleBesidesOrder

\* the first call; o_first keeps whether it raised and the multiset of its records
ResolveOrdered ==
    /\ o_pc = "idle"
    /\ o_result' = resolve_normalized(o_policies, resolve_from_strings(o_strings))
    /\ o_first' = [raised |-> o_result'.raised, records |-> MultisetOf(o_result'.records)]
    /\ o_pc' = "done"
    /\ UNCHANGED <<o_strings, o_policies, besidesOrder>>

\* the same batch with two neighbours swapped, resolved by a new resolver
\* against the same gateways
ResolveReordered ==
    /\ o_pc = "done"
    /\ \E i \in 1..(Len(o_strings) - 1) :
          /\ o_strings[i] # o_strings[i + 1]
          /\ o_strings' = SwapAt(o_strings, i)
    /\ o_result' = resolve_normalized(o_policies, resolve_from_strings(o_strings'))
    /\ UNCHANGED <<o_pc, o_policies, o_first, besidesOrder>>

NextOrder ==
    \/ ResolveOrdered
    \/ ResolveReordered

OrderSpec == InitOrder /\ [][NextOrder]_vars

\* C30: against gateways whose responses are functions of the request, every
\* ordering of a batch gives the same multiset of records; only the positions
\* of the records in the list may differ.
C30_OrderIndependent ==
    o_pc = "done" =>
        /\ o_result.raised = o_first.raised
        /\ MultisetOf(o_result.records) = o_first.records

=============================================================================
